---- MODULE Spec2Model ----
(***************************************************************************)
(* One invocation of the route handler produced by                         *)
(* RouteHandlerBuilder.handler(fn) (src/src/routeHandlerBuilder.ts):       *)
(* input parsing, body decoding, the four validation stages, the           *)
(* continuation-passing middleware chain, response normalisation and       *)
(* error translation.                                                      *)
(*                                                                         *)
(* The builder configuration closed over by the handler is state; the      *)
(* request, the user's validators' verdicts, the middleware, the user      *)
(* handler and the error translator are the environment: their outcomes    *)
(* are drawn from small sets in the action in which the code calls them.   *)
(*                                                                         *)
(* BuildSpec starts earlier: builders are made by the chaining methods      *)
(* (params, query, body, defineMetadata, metadata, use), handler(fn) is     *)
(* called on one of them and the handler it returns is then invoked.        *)
(*                                                                         *)
(* ConcurrentSpec runs several invocations of one handler at a time: the    *)
(* variables of the invocation are the locals of the running call, the     *)
(* other calls wait at an await with their own locals.                     *)
(***************************************************************************)
EXTENDS Integers, Sequences, FiniteSets, TLC

\* ---------------------------------------------------------------- bounds
\* longest middleware chain of a builder
MaxMiddlewares == 2
\* most key=value pairs of a query string
MaxPairs == 3
\* next() calls one invocation may make in total
MaxNextCalls == 3

\* ------------------------------------------------------------ JS values
JsUndefined == [js |-> "undefined"]
JsNull == [js |-> "null"]
JsObject(name) == [js |-> "object", name |-> name]
JsNumber(n) == [js |-> "number", value |-> n]
JsString(text) == [js |-> "string", value |-> text]
JsArray(items) == [js |-> "array", items |-> items]
JsError(name) == [js |-> "Error", name |-> name]
JsIssues(list) == [js |-> "issues", list |-> list]
JsFailure(message, errors) == [js |-> "failure", message |-> message, errors |-> errors]
JsMessage(message) == [js |-> "message", message |-> message]

\* what JSON.parse returns for the text JSON.stringify made of v: an Error
\* has no enumerable own property and is written as {}
JSONleaf(v) == IF v.js = "Error" THEN JsObject("{}") ELSE v
JSONvalue(v) ==
  IF v.js = "failure" THEN JsFailure(v.message, JSONleaf(v.errors)) ELSE JSONleaf(v)

\* JSON.stringify(v): undefined for undefined, a text otherwise
JSONstringify(v) == IF v.js = "undefined" THEN JsUndefined ELSE [text |-> JSONvalue(v)]

EmptyBody == [text |-> JsUndefined, empty |-> TRUE]
NoHeaders == "none"
JsonHeaders == "Content-Type: application/json"

\* new Response(body, {status, headers}); a null or undefined body is empty
NewResponse(body, status, headers) ==
  [type |-> "Response", status |-> status,
   body |-> IF "js" \in DOMAIN body THEN EmptyBody ELSE body,
   headers |-> headers]

IsResponse(v) == "type" \in DOMAIN v /\ v.type = "Response"

\* ------------------------------------------------------ errors (throwables)
InternalRouteHandlerError(message) ==
  [type |-> "InternalRouteHandlerError", js |-> "Error", message |-> message]
UserErrors == {JsError("E1"), JsError("E2")}
TranslatorError == JsError("translator")
ParamsSourceError == JsError("params")
DecodeError == JsError("SyntaxError")

IsInternal(error) == "type" \in DOMAIN error /\ error.type = "InternalRouteHandlerError"

\* settled promises
Fulfilled(v) == [settled |-> "fulfilled", value |-> v]
Rejected(e) == [settled |-> "rejected", value |-> e]
Pending == [settled |-> "pending", value |-> JsUndefined]

\* ------------------------------------------------------------ slot values
Raw(x) == [kind |-> "raw", of |-> x]
Typed(x) == [kind |-> "typed", of |-> x]
UndefinedValue == [kind |-> "undefined", of |-> "none"]
EmptyObject == Raw("empty")

\* ---------------------------------------------------------- query string
\* url.searchParams is the sequence of the <<key, value>> pairs of the query
\* string, in order of occurrence
QueryKeys == {"a", "b"}
QueryValues == {"x", "y"}
SearchParamsUpTo(n) ==
  UNION {[1..len -> QueryKeys \X QueryValues] : len \in 0..n}

\* url.searchParams.keys(): the key of every pair, repeated keys included
searchParamsKeys(searchParams) == [i \in 1..Len(searchParams) |-> searchParams[i][1]]

\* url.searchParams.getAll(key): the values of the pairs with that key, in
\* order of occurrence
RECURSIVE getAll(_, _)
getAll(searchParams, key) ==
  IF searchParams = <<>> THEN <<>>
  ELSE LET rest == getAll(Tail(searchParams), key) IN
       IF Head(searchParams)[1] = key THEN <<Head(searchParams)[2]>> \o rest ELSE rest

\* an entry that always holds the sequence of the key's values
QueryEntryAlwaysArray(searchParams, key) ==
  LET values == getAll(searchParams, key) IN
  <<key, JsArray([j \in 1..Len(values) |-> JsString(values[j])])>>

\* line 313: values.length === 1 ? [key, values[0]] : [key, values]
QueryEntry(searchParams, key) ==
  LET values == getAll(searchParams, key) IN
  IF Len(values) = 1 THEN <<key, JsString(values[1])>>
  ELSE <<key, JsArray([j \in 1..Len(values) |-> JsString(values[j])])>>

\* Object.fromEntries(entries): an own property for each key, holding the
\* value of the last entry with that key
fromEntries(entries) ==
  [k \in {entries[i][1] : i \in 1..Len(entries)} |->
     LET last == CHOOSE i \in 1..Len(entries) :
                   entries[i][1] = k /\ \A j \in (i + 1)..Len(entries) : entries[j][1] # k
     IN entries[last][2]]

\* lines 310-315: the query object made of the URL's search parameters
QueryOf(searchParams) ==
  LET ks == searchParamsKeys(searchParams) IN
  fromEntries([i \in 1..Len(ks) |-> QueryEntry(searchParams, ks[i])])

\* a validator is an external capability: its verdict on the value it is
\* given is success, or failure with a list of issues
IssueLists == {<<"invalid_type">>, <<"invalid_type", "too_small">>}

\* a safeParse whose data is the input it was given
safeParseEcho(data, verdict) ==
  [success |-> verdict.success, data |-> data, issues |-> JsIssues(verdict.issues)]

\* schema.safeParse(data): on success data is the schema's output, not the input
safeParse(data, verdict) ==
  IF verdict.success
    THEN [success |-> TRUE, data |-> Typed(data.of), issues |-> JsIssues(<<>>)]
    ELSE [success |-> FALSE, data |-> data, issues |-> JsIssues(verdict.issues)]

\* ------------------------------------------------------------ status map
Methods == {"GET", "POST", "PUT", "PATCH", "DELETE", "OPTIONS"}

defaultStatusMap ==
  [m \in {"GET", "POST", "PUT", "PATCH", "DELETE"} |->
     CASE m = "GET" -> 200 [] m = "POST" -> 201 [] m = "PUT" -> 200
       [] m = "PATCH" -> 200 [] m = "DELETE" -> 204]

\* a status map given to the constructor
CustomStatusMap == [POST |-> 200, OPTIONS |-> 202]

\* a lookup that answers 200 whatever the map holds
StatusForUnmapped(statusMap, method) == 200

\* this.statusMap[request.method] ?? 200
StatusFor(statusMap, method) ==
  IF method \in DOMAIN statusMap THEN statusMap[method] ELSE 200

\* ------------------------------------------------------- runtime context
\* a context is a function from its field names to the position that
\* supplied the field; {} is the function with the empty domain
EmptyCtx == [k \in {} |-> 0]
Increment(pos, keys) == [k \in keys |-> pos]

\* the options argument of next(): options.ctx is undefined or an object
NoOptions == [hasCtx |-> FALSE, ctx |-> EmptyCtx]
NextOptions(pos) ==
  {NoOptions} \cup {[hasCtx |-> TRUE, ctx |-> Increment(pos, ks)] : ks \in {{"a"}, {"b"}}}

\* a spread in which the fields already present win
SpreadKeepingOld(middlewareContext, ctx) ==
  [k \in DOMAIN middlewareContext \cup DOMAIN ctx |->
     IF k \in DOMAIN middlewareContext THEN middlewareContext[k] ELSE ctx[k]]

\* { ...middlewareContext, ...ctx }
Spread(middlewareContext, ctx) ==
  [k \in DOMAIN middlewareContext \cup DOMAIN ctx |->
     IF k \in DOMAIN ctx THEN ctx[k] ELSE middlewareContext[k]]

\* if (options.ctx) middlewareContext = {...middlewareContext, ...options.ctx}
MergeContext(middlewareContext, options) ==
  IF options.hasCtx THEN Spread(middlewareContext, options.ctx) ELSE middlewareContext

\* ------------------------------------------------------------ handleError
InternalServerError ==
  NewResponse(JSONstringify(JsMessage("Internal server error")), 500, NoHeaders)
\* what the configured translator returns for a failure: any response it likes
TranslatedResponse(error) ==
  NewResponse([text |-> JsObject("translated"), of |-> error], 400, NoHeaders)

TranslatorOutcomes == {"returns", "throws"}

\* handleError without the test for a validation failure
handleErrorUntyped(error, handleServerError, outcome) ==
  IF handleServerError
    THEN [result |-> IF outcome = "returns" THEN Fulfilled(TranslatedResponse(error))
                                            ELSE Rejected(TranslatorError),
          called |-> TRUE]
    ELSE [result |-> Fulfilled(InternalServerError), called |-> FALSE]

\* handleError whose default response carries the failure
handleErrorLeaking(error, handleServerError, outcome) ==
  IF IsInternal(error)
    THEN [result |-> Fulfilled(NewResponse(error.message, 400, NoHeaders)), called |-> FALSE]
    ELSE IF handleServerError
      THEN [result |-> IF outcome = "returns" THEN Fulfilled(TranslatedResponse(error))
                                              ELSE Rejected(TranslatorError),
            called |-> TRUE]
      ELSE [result |-> Fulfilled(NewResponse(JSONstringify(JsFailure("Internal server error",
                                                                     JsObject(error.name))),
                                             500, NoHeaders)),
            called |-> FALSE]

\* handleError that answers with its default although a translator is configured
handleErrorDefaultOnly(error, handleServerError, outcome) ==
  IF IsInternal(error)
    THEN [result |-> Fulfilled(NewResponse(error.message, 400, NoHeaders)), called |-> FALSE]
    ELSE [result |-> Fulfilled(InternalServerError), called |-> FALSE]

\* handleError that throws the failure on when no translator is configured
handleErrorPropagating(error, handleServerError, outcome) ==
  IF IsInternal(error)
    THEN [result |-> Fulfilled(NewResponse(error.message, 400, NoHeaders)), called |-> FALSE]
    ELSE IF handleServerError
      THEN [result |-> IF outcome = "returns" THEN Fulfilled(TranslatedResponse(error))
                                              ELSE Rejected(TranslatorError),
            called |-> TRUE]
      ELSE [result |-> Rejected(error), called |-> FALSE]

\* handleError that hands a validation failure to the translator as well,
\* and answers 400 all the same
handleErrorTranslatingAll(error, handleServerError, outcome) ==
  IF IsInternal(error)
    THEN [result |-> Fulfilled(NewResponse(error.message, 400, NoHeaders)),
          called |-> handleServerError]
    ELSE IF handleServerError
      THEN [result |-> IF outcome = "returns" THEN Fulfilled(TranslatedResponse(error))
                                              ELSE Rejected(TranslatorError),
            called |-> TRUE]
      ELSE [result |-> Fulfilled(InternalServerError), called |-> FALSE]

\* handleError(error, handleServerError): the promise the caller settles
\* with, and whether the translator was called; outcome is what the
\* translator does when it is called
handleError(error, handleServerError, outcome) ==
  IF IsInternal(error)
    THEN [result |-> Fulfilled(NewResponse(error.message, 400, NoHeaders)), called |-> FALSE]
    ELSE IF handleServerError
      THEN [result |-> IF outcome = "returns" THEN Fulfilled(TranslatedResponse(error))
                                              ELSE Rejected(TranslatorError),
            called |-> TRUE]
      ELSE [result |-> Fulfilled(InternalServerError), called |-> FALSE]

\* new InternalRouteHandlerError(JSON.stringify({ message, errors }))
ValidationError(message, errors) ==
  InternalRouteHandlerError(JSONstringify(JsFailure(message, errors)))

\* stage messages in which query and body name each other
StageMessageSwapped(slot) ==
  CASE slot = "params" -> "Invalid params" [] slot = "query" -> "Invalid body"
    [] slot = "body" -> "Invalid query" [] slot = "metadata" -> "Invalid metadata"

StageMessage(slot) ==
  CASE slot = "params" -> "Invalid params" [] slot = "query" -> "Invalid query"
    [] slot = "body" -> "Invalid body" [] slot = "metadata" -> "Invalid metadata"

\* -------------------------------------------------- results of the chain
\* what the user handler may return
UserResponse == NewResponse([text |-> JsObject("user")], 202, NoHeaders)
HandlerValues ==
  {UserResponse, JsObject("result"), JsUndefined, JsNull, JsArray(<<JsNumber(1), JsNull>>)}
\* the response a middleware builds itself
MiddlewareResponse(index) ==
  NewResponse([text |-> JsObject("middleware"), of |-> index], 401, JsonHeaders)

NormalizeWithBody(result, statusMap, method) ==
  IF IsResponse(result) THEN result
  ELSE NewResponse(JSONstringify(result), StatusFor(statusMap, method), JsonHeaders)

NormalizeRestatus(result, statusMap, method) ==
  LET status == StatusFor(statusMap, method) IN
  IF IsResponse(result) THEN [result EXCEPT !.status = status]
  ELSE IF status = 204 THEN NewResponse(JsNull, 204, NoHeaders)
  ELSE NewResponse(JSONstringify(result), status, JsonHeaders)

\* lines 397-408: a response passes through, anything else is serialised
\* with the status of the request's method
Normalize(result, statusMap, method) ==
  IF IsResponse(result) THEN result
  ELSE LET status == StatusFor(statusMap, method) IN
       IF status = 204 THEN NewResponse(JsNull, 204, NoHeaders)
       ELSE NewResponse(JSONstringify(result), status, JsonHeaders)

\* ------------------------------------------------------------------ state
VARIABLES
  builder,            \* the configuration the handler closes over (this)
  pc,                 \* where the invocation stands
  request,            \* the request being served
  params, query, body, metadata,   \* the four slots
  middlewareContext,  \* the runtime context shared by the chain
  stack,              \* activations of executeMiddlewareChain, innermost last
  outcome,            \* the settled promise the invocation returns
  validated,          \* slots handed to safeParse, in order
  failed,             \* the validation failure raised: its slot and its errors
  entered,            \* entered[i+1]: entries of chain position i
  supplied,           \* supplied[i+1]: next() calls of position i and the last options
  translatorCalls,    \* calls of the translator and the failure of the last one
  origin,             \* what the innermost position of the current pass produced
  builders,           \* the RouteHandlerBuilder objects made by chaining, oldest first
  configs,            \* the config objects the builders refer to
  arrays,             \* the middleware arrays the builders refer to
  born,               \* how each builder was made and what it held when it was made
  produced,           \* the builder whose handler(fn) was called, 0 when none was
  served,             \* how the builder of the handler being served was made
  decoding,           \* what the body decoding of the invocation did
  thrown,             \* the throws of the middlewares and the handler, and the last one
  ended,              \* the position that ended last and what its call resolved to
  invocation,         \* the invocation that is running: the variables above are its locals
  others              \* the locals of the invocations that are waiting at an await

buildVars == <<builders, configs, arrays, born, produced, served>>
pairVars == <<invocation, others>>

vars == <<builder, pc, request, params, query, body, metadata, middlewareContext,
          stack, outcome, validated, failed, entered, supplied, translatorCalls, origin,
          buildVars, decoding, thrown, ended, pairVars>>

slotVars == <<params, query, body, metadata>>
chainVars == <<middlewareContext, stack, entered, supplied, origin>>

N == Len(builder.middlewares)

NoOrigin == [kind |-> "none", pos |-> 0, error |-> JsUndefined, result |-> Pending,
             entries |-> 0, intact |-> FALSE, returned |-> JsUndefined]

Sum(s) ==
  LET F[i \in 0..Len(s)] == IF i = 0 THEN 0 ELSE F[i-1] + s[i] IN F[Len(s)]
TotalEntries == Sum(entered)
TotalNextCalls == Sum([i \in 1..Len(supplied) |-> supplied[i].n])

NoFailure == [slot |-> "none", errors |-> JsUndefined]

\* nothing was thrown by a middleware or by the handler
NoThrow == [n |-> 0, pos |-> 0, before |-> FALSE, entries |-> 0, error |-> JsUndefined]

\* no position of the chain has ended
NotEnded == [pos |-> 0, value |-> Pending]

\* the body has not been touched: nothing was read from the request and the
\* form-data decoder was not called
NoDecoding == [contentType |-> "", read |-> "none", decoder |-> FALSE, threw |-> FALSE]

\* ------------------------------------------------------------------- Init
\* Builders with an empty chain are explored with every configuration and
\* every request; builders with middleware, and the builders made by chaining
\* calls, with a JSON request.
Chains(lo, hi) == {[i \in 1..n |-> i - 1] : n \in lo..hi}

WideBuilders ==
  [config : [paramsSchema : BOOLEAN, querySchema : BOOLEAN,
             bodySchema : BOOLEAN, metadataSchema : BOOLEAN],
   middlewares : Chains(0, 0),
   handleServerError : BOOLEAN,
   handleFormData : BOOLEAN,
   metadataValue : {UndefinedValue, Raw("metadataValue")},
   statusMap : {Spread(defaultStatusMap, given) : given \in {<<>>, CustomStatusMap}}]

NarrowBuilders ==
  {[config |-> [paramsSchema |-> all, querySchema |-> all,
                bodySchema |-> all, metadataSchema |-> all],
    middlewares |-> chain,
    handleServerError |-> translator,
    handleFormData |-> FALSE,
    metadataValue |-> IF all THEN Raw("metadataValue") ELSE UndefinedValue,
    statusMap |-> defaultStatusMap] :
     all \in BOOLEAN, chain \in Chains(1, MaxMiddlewares), translator \in BOOLEAN}

\* the builder was made by chaining calls
NotServed == [op |-> "none"]
Built == builders # <<>> \/ served # NotServed
\* other invocations of the handler are under way
Paired == DOMAIN others # {}
Wide == builder.middlewares = <<>> /\ ~Built
RequestMethods == IF Wide THEN Methods ELSE {"GET", "POST"}
\* the builder with a query validator and nothing else
QueryBuilder ==
  [config |-> [paramsSchema |-> FALSE, querySchema |-> TRUE,
               bodySchema |-> FALSE, metadataSchema |-> FALSE],
   middlewares |-> <<>>,
   handleServerError |-> FALSE,
   handleFormData |-> FALSE,
   metadataValue |-> UndefinedValue,
   statusMap |-> defaultStatusMap]
\* the query string every other request carries: ?a=x&a=y&b=x
UsualSearchParams == <<<<"a", "x">>, <<"a", "y">>, <<"b", "x">>>>
\* query strings of the requests: every one for the builder with only a
\* query validator
SearchParams ==
  IF Wide /\ builder = QueryBuilder THEN SearchParamsUpTo(MaxPairs)
  ELSE IF Paired THEN {UsualSearchParams, <<>>}
  ELSE {UsualSearchParams}
ParamsSources == IF Wide THEN {"absent", "resolves", "rejects"} ELSE {"resolves"}
FormTypes == {"multipart/form-data", "application/x-www-form-urlencoded"}
ContentTypes ==
  IF Wide THEN FormTypes \cup {"application/json", ""}
  ELSE IF Built THEN {"application/json", "multipart/form-data"}
  ELSE {"application/json"}
Reads == IF Wide THEN {"returns", "throws"} ELSE {"returns"}

\* the slots whose value a validator is run on (lines 340, 351, 362, 373)
JudgedSlots ==
  {slot \in {"params", "query", "body", "metadata"} :
     CASE slot = "params" -> builder.config.paramsSchema
       [] slot = "query" -> builder.config.querySchema
       [] slot = "body" -> builder.config.bodySchema
       [] slot = "metadata" -> builder.config.metadataSchema
                               /\ builder.metadataValue # UndefinedValue}

\* the verdicts of the configured validators on this request: request.rejects
\* are the slots whose validator rejects the value it is given
Verdicts(slot) ==
  IF slot \in request.rejects
    THEN {[success |-> FALSE, issues |-> is] : is \in IssueLists}
    ELSE {[success |-> TRUE, issues |-> <<>>]}

\* the locals of a call that has not begun
NotBegun ==
  /\ pc = "idle"
  /\ request = [method |-> "none", rejects |-> {}, searchParams |-> <<>>, params |-> "absent"]
  /\ params = EmptyObject /\ query = Raw(QueryOf(<<>>))
  /\ body = EmptyObject /\ metadata = UndefinedValue
  /\ middlewareContext = EmptyCtx
  /\ stack = <<>>
  /\ outcome = Pending
  /\ validated = <<>>
  /\ failed = NoFailure
  /\ entered = [i \in 1..(N + 1) |-> 0]
  /\ supplied = [i \in 1..N |-> [n |-> 0, options |-> NoOptions]]
  /\ translatorCalls = [n |-> 0, last |-> JsUndefined]
  /\ origin = NoOrigin
  /\ decoding = NoDecoding
  /\ thrown = NoThrow
  /\ ended = NotEnded

Init ==
  /\ builder \in WideBuilders \cup NarrowBuilders
  /\ NotBegun
  /\ builders = <<>> /\ configs = <<>> /\ arrays = <<>> /\ born = <<>> /\ produced = 0
  /\ served = NotServed
  /\ invocation = 1 /\ others = <<>>

\* the translator's calls are counted
Translate(error, handled) ==
  translatorCalls' = IF handled.called
                       THEN [n |-> translatorCalls.n + 1, last |-> error]
                       ELSE translatorCalls

\* the outer catch of the handler (line 447): the failure is handed to
\* handleError and the invocation settles with what handleError does
Abort(error, tr) ==
  LET handled == handleError(error, builder.handleServerError, tr) IN
  /\ outcome' = handled.result
  /\ Translate(error, handled)
  /\ pc' = "done"

\* lines 306-319: the raw params are awaited, the query is read from the URL,
\* metadata starts as the static value and body as {}
Invoke ==
  /\ pc = "idle"
  /\ \E method \in RequestMethods, source \in ParamsSources, tr \in TranslatorOutcomes,
        rejects \in SUBSET JudgedSlots, searchParams \in SearchParams :
       /\ request' = [method |-> method, rejects |-> rejects, searchParams |-> searchParams,
                     params |-> source]
       /\ IF source = "rejects"
            THEN /\ Abort(ParamsSourceError, tr)
                 /\ UNCHANGED slotVars
            ELSE /\ params' = IF source = "absent" THEN EmptyObject ELSE Raw("context.params")
                 /\ query' = Raw(QueryOf(request'.searchParams))
                 /\ metadata' = builder.metadataValue
                 /\ body' = EmptyObject
                 /\ pc' = "decode"
                 /\ UNCHANGED <<outcome, translatorCalls>>
  /\ UNCHANGED <<buildVars, pairVars, ended, decoding, thrown, builder, validated, failed>>
  /\ UNCHANGED chainVars

\* a validation failure that is recorded but does not end the invocation
RejectAndGoOn(slot, errors) ==
  /\ failed' = [slot |-> slot, errors |-> errors]
  /\ pc' = CASE pc = "decode" -> "params" [] pc = "params" -> "query"
              [] pc = "query" -> "body" [] pc = "body" -> "metadata"
              [] pc = "metadata" -> "chain"
  /\ UNCHANGED <<outcome, translatorCalls>>

\* a validation failure is raised with the stage's message and caught by the
\* outer catch (lines 343, 354, 365, 376, 447)
Reject(slot, errors) ==
  /\ failed' = [slot |-> slot, errors |-> errors]
  /\ Abort(ValidationError(StageMessage(slot), errors), "returns")

IsFormMultipartOnly(contentType) == contentType = "multipart/form-data"
IsForm(contentType) == contentType \in FormTypes
SkipsBody(method) == method = "GET" \/ method = "DELETE"

\* a decoding whose failure is raised whether or not a body validator is
\* configured
DecodeBodyStrict ==
  /\ pc = "decode"
  /\ \E contentType \in ContentTypes, read \in Reads, decoder \in {"returns", "throws"} :
       LET custom == IsForm(contentType) /\ builder.handleFormData
           threw == read = "throws" \/ (custom /\ decoder = "throws")
           via == IF ~IsForm(contentType) THEN "request.json"
                  ELSE IF builder.handleFormData THEN "handleFormData" ELSE "formData.entries"
       IN IF SkipsBody(request.method)
            THEN /\ pc' = "params"
                 /\ UNCHANGED <<body, failed, outcome, translatorCalls, decoding>>
            ELSE /\ decoding' = [contentType |-> contentType,
                                 read |-> IF IsForm(contentType) THEN "request.formData"
                                                                 ELSE "request.json",
                                 decoder |-> custom /\ read = "returns",
                                 threw |-> threw]
                 /\ IF ~threw
                      THEN /\ body' = Raw(via)
                           /\ pc' = "params"
                           /\ UNCHANGED <<failed, outcome, translatorCalls>>
                      ELSE Reject("body", DecodeError) /\ UNCHANGED body
  /\ UNCHANGED <<buildVars, pairVars, ended, thrown, builder, request, params, query, metadata, validated>>
  /\ UNCHANGED chainVars

\* a decoding in which the form-data decoder is called outside the try block:
\* what it throws reaches the outer catch as any other error does
DecodeBodyDecoderUncaught ==
  /\ pc = "decode"
  /\ \E contentType \in ContentTypes, read \in Reads, decoder \in {"returns", "throws"},
        tr \in TranslatorOutcomes :
       LET custom == IsForm(contentType) /\ builder.handleFormData
           threw == read = "throws" \/ (custom /\ decoder = "throws")
           via == IF ~IsForm(contentType) THEN "request.json"
                  ELSE IF builder.handleFormData THEN "handleFormData" ELSE "formData.entries"
       IN IF SkipsBody(request.method)
            THEN /\ pc' = "params"
                 /\ UNCHANGED <<body, failed, outcome, translatorCalls, decoding>>
            ELSE /\ decoding' = [contentType |-> contentType,
                                 read |-> IF IsForm(contentType) THEN "request.formData"
                                                                 ELSE "request.json",
                                 decoder |-> custom /\ read = "returns",
                                 threw |-> threw]
                 /\ IF ~threw
                      THEN /\ body' = Raw(via)
                           /\ pc' = "params"
                           /\ UNCHANGED <<failed, outcome, translatorCalls>>
                      ELSE IF read = "returns"
                        THEN Abort(DecodeError, tr) /\ UNCHANGED <<body, failed>>
                      ELSE IF builder.config.bodySchema
                        THEN Reject("body", DecodeError) /\ UNCHANGED body
                        ELSE pc' = "params" /\ UNCHANGED <<body, failed, outcome, translatorCalls>>
  /\ UNCHANGED <<buildVars, pairVars, ended, thrown, builder, request, params, query, metadata, validated>>
  /\ UNCHANGED chainVars

\* lines 319-337: read is what request.formData() or request.json() does,
\* decoder what this.handleFormData does when it is called
DecodeBody ==
  /\ pc = "decode"
  /\ \E contentType \in ContentTypes, read \in Reads, decoder \in {"returns", "throws"} :
       LET custom == IsForm(contentType) /\ builder.handleFormData
           threw == read = "throws" \/ (custom /\ decoder = "throws")
           via == IF ~IsForm(contentType) THEN "request.json"
                  ELSE IF builder.handleFormData THEN "handleFormData" ELSE "formData.entries"
       IN IF SkipsBody(request.method)
            THEN /\ pc' = "params"
                 /\ UNCHANGED <<body, failed, outcome, translatorCalls, decoding>>
            ELSE /\ decoding' = [contentType |-> contentType,
                                 read |-> IF IsForm(contentType) THEN "request.formData"
                                                                 ELSE "request.json",
                                 decoder |-> custom /\ read = "returns",
                                 threw |-> threw]
                 /\ IF ~threw
                      THEN /\ body' = Raw(via)
                           /\ pc' = "params"
                           /\ UNCHANGED <<failed, outcome, translatorCalls>>
                      ELSE IF builder.config.bodySchema
                        THEN Reject("body", DecodeError) /\ UNCHANGED body
                        ELSE pc' = "params" /\ UNCHANGED <<body, failed, outcome, translatorCalls>>
  /\ UNCHANGED <<buildVars, pairVars, ended, thrown, builder, request, params, query, metadata, validated>>
  /\ UNCHANGED chainVars

\* lines 339-348
ValidateParams ==
  /\ pc = "params"
  /\ IF builder.config.paramsSchema
       THEN \E verdict \in Verdicts("params") :
            LET paramsResult == safeParse(params, verdict) IN
            /\ validated' = Append(validated, "params")
            /\ IF ~paramsResult.success
                 THEN Reject("params", paramsResult.issues) /\ UNCHANGED params
                 ELSE /\ params' = paramsResult.data
                      /\ pc' = "query"
                      /\ UNCHANGED <<failed, outcome, translatorCalls>>
       ELSE pc' = "query" /\ UNCHANGED <<params, validated, failed, outcome, translatorCalls>>
  /\ UNCHANGED <<buildVars, pairVars, ended, decoding, thrown, builder, request, query, body, metadata>>
  /\ UNCHANGED chainVars

\* lines 350-359
ValidateQuery ==
  /\ pc = "query"
  /\ IF builder.config.querySchema
       THEN \E verdict \in Verdicts("query") :
            LET queryResult == safeParse(query, verdict) IN
            /\ validated' = Append(validated, "query")
            /\ IF ~queryResult.success
                 THEN Reject("query", queryResult.issues) /\ UNCHANGED query
                 ELSE /\ query' = queryResult.data
                      /\ pc' = "body"
                      /\ UNCHANGED <<failed, outcome, translatorCalls>>
       ELSE pc' = "body" /\ UNCHANGED <<query, validated, failed, outcome, translatorCalls>>
  /\ UNCHANGED <<buildVars, pairVars, ended, decoding, thrown, builder, request, params, body, metadata>>
  /\ UNCHANGED chainVars

\* lines 361-370
ValidateBody ==
  /\ pc = "body"
  /\ IF builder.config.bodySchema
       THEN \E verdict \in Verdicts("body") :
            LET bodyResult == safeParse(body, verdict) IN
            /\ validated' = Append(validated, "body")
            /\ IF ~bodyResult.success
                 THEN Reject("body", bodyResult.issues) /\ UNCHANGED body
                 ELSE /\ body' = bodyResult.data
                      /\ pc' = "metadata"
                      /\ UNCHANGED <<failed, outcome, translatorCalls>>
       ELSE pc' = "metadata" /\ UNCHANGED <<body, validated, failed, outcome, translatorCalls>>
  /\ UNCHANGED <<buildVars, pairVars, ended, decoding, thrown, builder, request, params, query, metadata>>
  /\ UNCHANGED chainVars

\* a metadata validation that runs whenever a metadata validator is configured
ValidateMetadataAlways ==
  /\ pc = "metadata"
  /\ IF builder.config.metadataSchema
       THEN \E verdict \in Verdicts("metadata") :
            LET metadataResult == safeParse(metadata, verdict) IN
            /\ validated' = Append(validated, "metadata")
            /\ IF ~metadataResult.success
                 THEN Reject("metadata", metadataResult.issues) /\ UNCHANGED metadata
                 ELSE /\ metadata' = metadataResult.data
                      /\ pc' = "chain"
                      /\ UNCHANGED <<failed, outcome, translatorCalls>>
       ELSE pc' = "chain" /\ UNCHANGED <<metadata, validated, failed, outcome, translatorCalls>>
  /\ UNCHANGED <<buildVars, pairVars, ended, decoding, thrown, builder, request, params, query, body>>
  /\ UNCHANGED chainVars

\* lines 372-381: skipped when there is no metadata value
ValidateMetadata ==
  /\ pc = "metadata"
  /\ IF builder.config.metadataSchema /\ metadata # UndefinedValue
       THEN \E verdict \in Verdicts("metadata") :
            LET metadataResult == safeParse(metadata, verdict) IN
            /\ validated' = Append(validated, "metadata")
            /\ IF ~metadataResult.success
                 THEN Reject("metadata", metadataResult.issues) /\ UNCHANGED metadata
                 ELSE /\ metadata' = metadataResult.data
                      /\ pc' = "chain"
                      /\ UNCHANGED <<failed, outcome, translatorCalls>>
       ELSE pc' = "chain" /\ UNCHANGED <<metadata, validated, failed, outcome, translatorCalls>>
  /\ UNCHANGED <<buildVars, pairVars, ended, decoding, thrown, builder, request, params, query, body>>
  /\ UNCHANGED chainVars

\* ---------------------------------------------------- middleware chain
Top == stack[Len(stack)]
Running == pc = "run" /\ stack # <<>>

\* executeMiddlewareChain(index) begins: the middleware at index, or the user
\* handler when index is past the chain, is called with the four slots as they
\* are and with ctx: middlewareContext as it is at that moment (lines 386-395,
\* 414, 427-435)
Activation(index, ctx) ==
  [index |-> index, ctx |-> ctx, calls |-> 0, last |-> Pending,
   fn |-> IF index < N THEN builder.middlewares[index + 1] ELSE "handler",
   args |-> [params |-> params, query |-> query, body |-> body, metadata |-> metadata]]

\* the running position ends: what its call resolves to is recorded
End(result) == ended' = [pos |-> Top.index, value |-> result]

\* an invocation that returns what the innermost position produced instead
\* of what position 0 resolved to
SettleDownstream(result) ==
  IF Len(stack) = 1
    THEN /\ stack' = <<>>
         /\ outcome' = IF origin.kind = "none" THEN result ELSE origin.result
         /\ pc' = "done"
    ELSE /\ stack' = [SubSeq(stack, 1, Len(stack) - 1) EXCEPT ![Len(stack) - 1].last = result]
         /\ UNCHANGED <<outcome, pc>>

\* an invocation whose promise is left pending when position 0 has ended
SettleUnreturned(result) ==
  IF Len(stack) = 1
    THEN /\ stack' = <<>>
         /\ UNCHANGED <<outcome, pc>>
    ELSE /\ stack' = [SubSeq(stack, 1, Len(stack) - 1) EXCEPT ![Len(stack) - 1].last = result]
         /\ UNCHANGED <<outcome, pc>>

\* an activation settles but next() does not hand its result to the caller
SettleLost(result) ==
  IF Len(stack) = 1
    THEN /\ stack' = <<>>
         /\ outcome' = result
         /\ pc' = "done"
    ELSE /\ stack' = [SubSeq(stack, 1, Len(stack) - 1)
                        EXCEPT ![Len(stack) - 1].last = Fulfilled(JsUndefined)]
         /\ UNCHANGED <<outcome, pc>>

\* an activation settles: the promise of executeMiddlewareChain(index) is
\* what the awaiting next() of the enclosing middleware resolves to (line
\* 421), or what the invocation returns (line 446)
Settle(result) ==
  IF Len(stack) = 1
    THEN /\ stack' = <<>>
         /\ outcome' = result
         /\ pc' = "done"
    ELSE /\ stack' = [SubSeq(stack, 1, Len(stack) - 1) EXCEPT ![Len(stack) - 1].last = result]
         /\ UNCHANGED <<outcome, pc>>

Produced(kind, error, result) ==
  [kind |-> kind, pos |-> Top.index, error |-> error, result |-> result,
   entries |-> TotalEntries, intact |-> TRUE, returned |-> JsUndefined]

\* lines 383-386, 446: the context starts empty and position 0 is entered
StartChain ==
  /\ pc = "chain"
  /\ middlewareContext' = EmptyCtx
  /\ stack' = <<Activation(0, EmptyCtx)>>
  /\ entered' = [entered EXCEPT ![1] = @ + 1]
  /\ pc' = "run"
  /\ UNCHANGED <<buildVars, pairVars, ended, decoding, thrown, builder, request, slotVars, outcome, validated, failed,
                 supplied, translatorCalls, origin>>

\* next() calls one invocation may make: at most one for each middleware of
\* the chain when the builder was made by chaining calls
NextBudget == IF Built \/ Paired THEN N ELSE MaxNextCalls

\* a next() that enters the position after the next one when there is one
MiddlewareNextSkipping ==
  /\ Running /\ Top.index < N
  /\ TotalNextCalls < NextBudget
  /\ \E options \in NextOptions(Top.index) :
       LET merged == MergeContext(middlewareContext, options)
           to == IF Top.index + 2 <= N THEN Top.index + 2 ELSE Top.index + 1 IN
       /\ middlewareContext' = merged
       /\ stack' = Append([stack EXCEPT ![Len(stack)].calls = @ + 1,
                                        ![Len(stack)].last = Pending],
                          Activation(to, merged))
       /\ supplied' = [supplied EXCEPT ![Top.index + 1] = [n |-> @.n + 1, options |-> options]]
       /\ entered' = [entered EXCEPT ![to + 1] = @ + 1]
  /\ origin' = NoOrigin
  /\ UNCHANGED <<buildVars, pairVars, ended, decoding, thrown, builder, pc, request, slotVars, outcome, validated, failed, translatorCalls>>

\* lines 417-424: the running middleware calls next(options)
MiddlewareNext ==
  /\ Running /\ Top.index < N
  /\ TotalNextCalls < NextBudget
  /\ \E options \in NextOptions(Top.index) :
       LET merged == MergeContext(middlewareContext, options) IN
       /\ middlewareContext' = merged
       /\ stack' = Append([stack EXCEPT ![Len(stack)].calls = @ + 1,
                                        ![Len(stack)].last = Pending],
                          Activation(Top.index + 1, merged))
       /\ supplied' = [supplied EXCEPT ![Top.index + 1] = [n |-> @.n + 1, options |-> options]]
       /\ entered' = [entered EXCEPT ![Top.index + 2] = @ + 1]
  /\ origin' = NoOrigin
  /\ UNCHANGED <<buildVars, pairVars, ended, decoding, thrown, builder, pc, request, slotVars, outcome, validated, failed, translatorCalls>>

\* what the running middleware may return: the result of its last next(), a
\* response of its own, or nothing
MiddlewareReturns ==
  {"own", "nothing"} \cup (IF Top.last.settled = "fulfilled" THEN {"continuation"} ELSE {})

\* a chain that goes on to the next position when a middleware returns
\* nothing without having called next()
MiddlewareReturnFallsThrough ==
  /\ Running /\ Top.index < N
  /\ \/ /\ Top.calls = 0
        /\ stack' = Append(stack, Activation(Top.index + 1, middlewareContext))
        /\ entered' = [entered EXCEPT ![Top.index + 2] = @ + 1]
        /\ UNCHANGED <<middlewareContext, origin, outcome, pc, ended>>
     \/ /\ \E choice \in MiddlewareReturns \ {"nothing"} :
             LET result == CASE choice = "own" -> MiddlewareResponse(Top.index)
                             [] choice = "continuation" -> Top.last.value
             IN /\ origin' = IF Top.calls = 0
                               THEN Produced("short", JsUndefined, Fulfilled(result))
                               ELSE IF choice = "continuation" THEN origin
                               ELSE [origin EXCEPT !.intact = FALSE]
                /\ End(Fulfilled(result))
                /\ Settle(Fulfilled(result))
        /\ UNCHANGED <<middlewareContext, entered>>
  /\ UNCHANGED <<buildVars, pairVars, decoding, thrown, builder, request, slotVars, validated, failed, supplied,
                 translatorCalls>>

\* lines 427-440: the middleware returns; a response is returned as it is,
\* anything else after middlewareContext = { ...middlewareContext }
MiddlewareReturn ==
  /\ Running /\ Top.index < N
  /\ \E choice \in MiddlewareReturns :
       LET result == CASE choice = "own" -> MiddlewareResponse(Top.index)
                       [] choice = "nothing" -> JsUndefined
                       [] choice = "continuation" -> Top.last.value
       IN /\ middlewareContext' =
               IF IsResponse(result) THEN middlewareContext
                                     ELSE Spread(middlewareContext, EmptyCtx)
          /\ origin' = IF Top.calls = 0
                         THEN Produced(IF choice = "own" THEN "short" ELSE "stray",
                                       JsUndefined, Fulfilled(result))
                         ELSE IF choice = "continuation" THEN origin
                         ELSE [origin EXCEPT !.intact = FALSE]
          /\ End(Fulfilled(result))
          /\ Settle(Fulfilled(result))
  /\ UNCHANGED <<buildVars, pairVars, decoding, thrown, builder, request, slotVars, validated, failed, entered, supplied,
                 translatorCalls>>

\* what the running middleware may throw: a failure of its own, or the one
\* its next() rejected with
MiddlewareThrows ==
  UserErrors \cup (IF Top.last.settled = "rejected" THEN {Top.last.value} ELSE {})

\* a middleware or the handler throws: the throw is counted
Throw(error) ==
  thrown' = [n |-> thrown.n + 1, pos |-> Top.index, before |-> Top.calls = 0,
             entries |-> TotalEntries, error |-> error]

\* a chain that goes on with the next position after a middleware threw
MiddlewareThrowGoesOn ==
  /\ Running /\ Top.index < N
  /\ \E error \in MiddlewareThrows :
       /\ Throw(error)
       /\ stack' = Append(stack, Activation(Top.index + 1, middlewareContext))
       /\ entered' = [entered EXCEPT ![Top.index + 2] = @ + 1]
       /\ supplied' = [supplied EXCEPT ![Top.index + 1].n = @ + 1]
  /\ UNCHANGED <<buildVars, pairVars, ended, decoding, builder, request, slotVars, validated, failed,
                 middlewareContext, origin, outcome, pc, translatorCalls>>

\* lines 441-443: the middleware throws and handleError translates
MiddlewareThrow ==
  /\ Running /\ Top.index < N
  /\ \E error \in MiddlewareThrows, tr \in TranslatorOutcomes :
       LET handled == handleError(error, builder.handleServerError, tr) IN
       /\ Translate(error, handled)
       /\ Throw(error)
       /\ origin' = Produced("throw", error, handled.result)
       /\ End(handled.result)
       /\ Settle(handled.result)
  /\ UNCHANGED <<buildVars, pairVars, decoding, builder, request, slotVars, validated, failed, middlewareContext,
                 entered, supplied>>

\* lines 389-408: the user handler returns and its result is normalised
HandlerReturn ==
  /\ Running /\ Top.index >= N
  /\ \E value \in HandlerValues :
       LET result == Fulfilled(Normalize(value, builder.statusMap, request.method)) IN
       /\ origin' = [Produced("handler", JsUndefined, result) EXCEPT !.returned = value]
       /\ End(result)
       /\ Settle(result)
  /\ UNCHANGED <<buildVars, pairVars, decoding, thrown, builder, request, slotVars, validated, failed, middlewareContext,
                 entered, supplied, translatorCalls>>

\* lines 409-411: the user handler throws and handleError translates
HandlerThrow ==
  /\ Running /\ Top.index >= N
  /\ \E error \in UserErrors, tr \in TranslatorOutcomes :
       LET handled == handleError(error, builder.handleServerError, tr) IN
       /\ Translate(error, handled)
       /\ Throw(error)
       /\ origin' = Produced("throw", error, handled.result)
       /\ End(handled.result)
       /\ Settle(handled.result)
  /\ UNCHANGED <<buildVars, pairVars, decoding, builder, request, slotVars, validated, failed, middlewareContext,
                 entered, supplied>>

Next ==
  \/ Invoke
  \/ DecodeBody
  \/ ValidateParams
  \/ ValidateQuery
  \/ ValidateBody
  \/ ValidateMetadata
  \/ StartChain
  \/ MiddlewareNext
  \/ MiddlewareReturn
  \/ MiddlewareThrow
  \/ HandlerReturn
  \/ HandlerThrow

Spec == Init /\ [][Next]_vars

\* every call the invocation awaits settles, and the code after the await
\* is then run: a step that can be taken is eventually taken
LiveSpec == Init /\ [][Next]_vars /\ WF_vars(Next)

\* ------------------------------------------------ concurrent invocations
\* invocations of one handler that are under way at the same time
MaxInvocations == 2

\* the locals of one call of the async function of lines 306-450 (request,
\* params, query, metadata, body, middlewareContext, the activations of
\* executeMiddlewareChain and the promise returned), with what is recorded
\* about the call
Frame ==
  [pc |-> pc, request |-> request, params |-> params, query |-> query, body |-> body,
   metadata |-> metadata, middlewareContext |-> middlewareContext, stack |-> stack,
   outcome |-> outcome, validated |-> validated, failed |-> failed, entered |-> entered,
   supplied |-> supplied, translatorCalls |-> translatorCalls, origin |-> origin,
   decoding |-> decoding, thrown |-> thrown, ended |-> ended]

\* a call whose middlewareContext is one variable shared by every call
RestoreSharingContext(frame) ==
  /\ pc' = frame.pc /\ request' = frame.request
  /\ params' = frame.params /\ query' = frame.query
  /\ body' = frame.body /\ metadata' = frame.metadata
  /\ UNCHANGED middlewareContext /\ stack' = frame.stack
  /\ outcome' = frame.outcome /\ validated' = frame.validated /\ failed' = frame.failed
  /\ entered' = frame.entered /\ supplied' = frame.supplied
  /\ translatorCalls' = frame.translatorCalls /\ origin' = frame.origin
  /\ decoding' = frame.decoding /\ thrown' = frame.thrown /\ ended' = frame.ended

\* the call goes on with its own locals
Restore(frame) ==
  /\ pc' = frame.pc /\ request' = frame.request
  /\ params' = frame.params /\ query' = frame.query
  /\ body' = frame.body /\ metadata' = frame.metadata
  /\ middlewareContext' = frame.middlewareContext /\ stack' = frame.stack
  /\ outcome' = frame.outcome /\ validated' = frame.validated /\ failed' = frame.failed
  /\ entered' = frame.entered /\ supplied' = frame.supplied
  /\ translatorCalls' = frame.translatorCalls /\ origin' = frame.origin
  /\ decoding' = frame.decoding /\ thrown' = frame.thrown /\ ended' = frame.ended

\* the running call is at an await (lines 309, 327, 330, 389, 421, 427), has
\* not begun or has returned: the code between two awaits runs to completion
AtAwait == pc \in {"idle", "decode", "run", "done"}

\* the event loop goes on with another call; the builder (this) is the one
\* object every call reads
Switch ==
  /\ AtAwait
  /\ \E to \in DOMAIN others :
       /\ Restore(others[to])
       /\ invocation' = to
       /\ others' = [i \in (DOMAIN others \ {to}) \cup {invocation} |->
                      IF i = invocation THEN Frame ELSE others[i]]
  /\ UNCHANGED <<buildVars, builder>>

\* the builders whose handler is invoked concurrently
ConcurrentBuilders ==
  {b \in NarrowBuilders : Len(b.middlewares) = 1 /\ ~b.handleServerError}

\* no call has begun: every one has the locals of a call about to start
ConcurrentInit ==
  /\ builder \in ConcurrentBuilders
  /\ NotBegun
  /\ builders = <<>> /\ configs = <<>> /\ arrays = <<>> /\ born = <<>> /\ produced = 0
  /\ served = NotServed
  /\ invocation = 1
  /\ others = [i \in 2..MaxInvocations |-> Frame]

ConcurrentNext ==
  \/ Next
  \/ Switch

ConcurrentSpec == ConcurrentInit /\ [][ConcurrentNext]_vars

\* ------------------------------------------------- builders and chaining
\* builders one run of chaining calls may make
MaxBuilders == 3

\* a zod object schema: its shape gives each named field its definition
Undefined == [zod |-> "undefined"]
ZodObject(shape) == [zod |-> "object", shape |-> shape]
ShapeA == [userId |-> "string"]
ShapeB == [userId |-> "number", organizationId |-> "string"]
ParamsSchemas == {ZodObject(ShapeA), ZodObject(ShapeB)}
QuerySchema == ZodObject([search |-> "string"])
BodySchema == ZodObject([field |-> "string"])
MetadataSchema == ZodObject([permission |-> "string"])
\* the middleware functions given to use
Middlewares == {0, 1}

\* an extend in which the fields of the base schema win
extendKeepingBase(baseSchema, shape) ==
  ZodObject([k \in DOMAIN baseSchema.shape \cup DOMAIN shape |->
               IF k \in DOMAIN baseSchema.shape THEN baseSchema.shape[k] ELSE shape[k]])

\* baseSchema.extend(shape): the fields of both, those of shape winning
extend(baseSchema, shape) == ZodObject(Spread(baseSchema.shape, shape))

\* the objects a builder refers to, and everything it holds
Config(this) == configs[this.config]
Chain(this) == arrays[this.middlewares]
Held(this, cs, as) ==
  [config |-> cs[this.config], middlewares |-> as[this.middlewares],
   handleServerError |-> this.handleServerError, handleFormData |-> this.handleFormData,
   metadataValue |-> this.metadataValue, statusMap |-> this.statusMap]
Holds(i) == Held(builders[i], configs, arrays)

\* the constructor (lines 83-126): the fields are stored as they are given
\* (config and middlewares by reference) and the status map is a fresh object
RouteHandlerBuilder(args) ==
  [config |-> args.config, middlewares |-> args.middlewares,
   handleServerError |-> args.handleServerError, handleFormData |-> args.handleFormData,
   metadataValue |-> args.metadataValue,
   statusMap |-> Spread(defaultStatusMap, args.statusMap)]

DefaultConfig ==
  [paramsSchema |-> Undefined, querySchema |-> Undefined,
   bodySchema |-> Undefined, metadataSchema |-> Undefined]

\* createZodRoute(params): what it gives the constructor, with the
\* constructor's defaults for the rest (an empty config, an empty chain, no
\* metadata value, no status map)
createZodRoute(handleServerError, handleFormData) ==
  [config |-> DefaultConfig, middlewares |-> <<>>,
   handleServerError |-> handleServerError, handleFormData |-> handleFormData,
   metadataValue |-> UndefinedValue, statusMap |-> <<>>]

\* the first builder is made by createZodRoute, or by the constructor itself
\* with a config, a chain, a metadata value and a status map
ConstructorArgs ==
  {createZodRoute(FALSE, FALSE), createZodRoute(TRUE, TRUE),
   [config |-> [DefaultConfig EXCEPT !.paramsSchema = ZodObject(ShapeA)],
    middlewares |-> <<0>>, handleServerError |-> TRUE, handleFormData |-> FALSE,
    metadataValue |-> Raw("metadataValue"), statusMap |-> CustomStatusMap]}

\* what the first builder's maker gave the constructor for the translator, the
\* form-data decoder and the status map
Given(args) ==
  [handleServerError |-> args.handleServerError, handleFormData |-> args.handleFormData,
   statusMap |-> args.statusMap]

\* the builder the invocation reads before a handler is served
NoBuilder ==
  [config |-> [paramsSchema |-> FALSE, querySchema |-> FALSE,
               bodySchema |-> FALSE, metadataSchema |-> FALSE],
   middlewares |-> <<>>, handleServerError |-> FALSE, handleFormData |-> FALSE,
   metadataValue |-> UndefinedValue, statusMap |-> defaultStatusMap]

BuildInit ==
  /\ \E args \in ConstructorArgs :
       LET root == RouteHandlerBuilder([args EXCEPT !.config = 1, !.middlewares = 1]) IN
       /\ builders = <<root>>
       /\ configs = <<args.config>>
       /\ arrays = <<args.middlewares>>
       /\ born = <<[op |-> "new", of |-> 0, arg |-> Undefined, extend |-> FALSE,
                    given |-> Given(args),
                    from |-> Held(root, <<args.config>>, <<args.middlewares>>),
                    value |-> Held(root, <<args.config>>, <<args.middlewares>>)]>>
  /\ produced = 0
  /\ served = NotServed
  /\ decoding = NoDecoding
  /\ thrown = NoThrow
  /\ ended = NotEnded
  /\ invocation = 1 /\ others = <<>>
  /\ builder = NoBuilder
  /\ pc = "build"
  /\ request = [method |-> "none", rejects |-> {}, searchParams |-> <<>>, params |-> "absent"]
  /\ params = EmptyObject /\ query = Raw(QueryOf(<<>>))
  /\ body = EmptyObject /\ metadata = UndefinedValue
  /\ middlewareContext = EmptyCtx
  /\ stack = <<>>
  /\ outcome = Pending
  /\ validated = <<>>
  /\ failed = NoFailure
  /\ entered = <<0>>
  /\ supplied = <<>>
  /\ translatorCalls = [n |-> 0, last |-> JsUndefined]
  /\ origin = NoOrigin

invocationVars == <<builder, pc, request, slotVars, chainVars, outcome, validated, failed,
                    translatorCalls, decoding, thrown, ended, pairVars>>

\* a chaining call on builder i returns a new builder: object is what the
\* constructor made, cs and as the config objects and arrays after the call
Make(op, i, arg, ext, object, cs, as) ==
  /\ builders' = Append(builders, object)
  /\ configs' = cs
  /\ arrays' = as
  /\ born' = Append(born, [op |-> op, of |-> i, arg |-> arg, extend |-> ext,
                           given |-> born[i].given,
                           from |-> Holds(i), value |-> Held(object, cs, as)])
  /\ UNCHANGED <<produced, served>>
  /\ UNCHANGED invocationVars

Chaining == pc = "build" /\ Len(builders) < MaxBuilders

\* lines 163-186: params(schema, extend)
Params ==
  /\ Chaining
  /\ \E i \in 1..Len(builders), schema \in ParamsSchemas, ext \in BOOLEAN :
       LET this == builders[i]
           baseSchema == Config(this).paramsSchema
           additionalFields == schema
           finalSchema == IF ext /\ baseSchema # Undefined
                            THEN extend(baseSchema, additionalFields.shape)
                            ELSE additionalFields
       IN Make("params", i, schema, ext,
               RouteHandlerBuilder([config |-> Len(configs) + 1,
                                    middlewares |-> this.middlewares,
                                    handleServerError |-> this.handleServerError,
                                    handleFormData |-> this.handleFormData,
                                    metadataValue |-> this.metadataValue,
                                    statusMap |-> this.statusMap]),
               Append(configs, [Config(this) EXCEPT !.paramsSchema = finalSchema]),
               arrays)

\* a query(schema) that starts from an empty chain and no metadata value
QueryResetting ==
  /\ Chaining
  /\ \E i \in 1..Len(builders), schema \in {QuerySchema} :
       LET this == builders[i] IN
       Make("query", i, schema, FALSE,
            RouteHandlerBuilder([config |-> Len(configs) + 1,
                                 middlewares |-> Len(arrays) + 1,
                                 handleServerError |-> this.handleServerError,
                                 handleFormData |-> this.handleFormData,
                                 metadataValue |-> UndefinedValue,
                                 statusMap |-> this.statusMap]),
            Append(configs, [Config(this) EXCEPT !.querySchema = schema]),
            Append(arrays, <<>>))

\* lines 193-212: query(schema)
Query ==
  /\ Chaining
  /\ \E i \in 1..Len(builders), schema \in {QuerySchema} :
       LET this == builders[i] IN
       Make("query", i, schema, FALSE,
            RouteHandlerBuilder([config |-> Len(configs) + 1,
                                 middlewares |-> this.middlewares,
                                 handleServerError |-> this.handleServerError,
                                 handleFormData |-> this.handleFormData,
                                 metadataValue |-> this.metadataValue,
                                 statusMap |-> this.statusMap]),
            Append(configs, [Config(this) EXCEPT !.querySchema = schema]),
            arrays)

\* lines 219-238: body(schema)
Body ==
  /\ Chaining
  /\ \E i \in 1..Len(builders), schema \in {BodySchema} :
       LET this == builders[i] IN
       Make("body", i, schema, FALSE,
            RouteHandlerBuilder([config |-> Len(configs) + 1,
                                 middlewares |-> this.middlewares,
                                 handleServerError |-> this.handleServerError,
                                 handleFormData |-> this.handleFormData,
                                 metadataValue |-> this.metadataValue,
                                 statusMap |-> this.statusMap]),
            Append(configs, [Config(this) EXCEPT !.bodySchema = schema]),
            arrays)

\* a defineMetadata(schema) that keeps the chain and the metadata value
DefineMetadataKeeping ==
  /\ Chaining
  /\ \E i \in 1..Len(builders), schema \in {MetadataSchema} :
       LET this == builders[i] IN
       Make("defineMetadata", i, schema, FALSE,
            RouteHandlerBuilder([config |-> Len(configs) + 1,
                                 middlewares |-> this.middlewares,
                                 handleServerError |-> this.handleServerError,
                                 handleFormData |-> this.handleFormData,
                                 metadataValue |-> this.metadataValue,
                                 statusMap |-> this.statusMap]),
            Append(configs, [Config(this) EXCEPT !.metadataSchema = schema]),
            arrays)

\* a defineMetadata(schema) that gives the constructor no status map
DefineMetadataDefaultStatus ==
  /\ Chaining
  /\ \E i \in 1..Len(builders), schema \in {MetadataSchema} :
       LET this == builders[i] IN
       Make("defineMetadata", i, schema, FALSE,
            RouteHandlerBuilder([config |-> Len(configs) + 1,
                                 middlewares |-> Len(arrays) + 1,
                                 handleServerError |-> this.handleServerError,
                                 handleFormData |-> this.handleFormData,
                                 metadataValue |-> UndefinedValue,
                                 statusMap |-> <<>>]),
            Append(configs, [Config(this) EXCEPT !.metadataSchema = schema]),
            Append(arrays, <<>>))

\* lines 245-255: defineMetadata(schema), with a new empty array and no value
DefineMetadata ==
  /\ Chaining
  /\ \E i \in 1..Len(builders), schema \in {MetadataSchema} :
       LET this == builders[i] IN
       Make("defineMetadata", i, schema, FALSE,
            RouteHandlerBuilder([config |-> Len(configs) + 1,
                                 middlewares |-> Len(arrays) + 1,
                                 handleServerError |-> this.handleServerError,
                                 handleFormData |-> this.handleFormData,
                                 metadataValue |-> UndefinedValue,
                                 statusMap |-> this.statusMap]),
            Append(configs, [Config(this) EXCEPT !.metadataSchema = schema]),
            Append(arrays, <<>>))

\* a metadata(value) that starts from an empty chain
MetadataResetting ==
  /\ Chaining
  /\ \E i \in 1..Len(builders), value \in {Raw("metadataValue")} :
       LET this == builders[i] IN
       Make("metadata", i, value, FALSE,
            RouteHandlerBuilder([this EXCEPT !.metadataValue = value,
                                             !.middlewares = Len(arrays) + 1]),
            configs, Append(arrays, <<>>))

\* lines 262-267: metadata(value) spreads this, so config and middlewares are
\* the receiver's own objects
Metadata ==
  /\ Chaining
  /\ \E i \in 1..Len(builders), value \in {Raw("metadataValue")} :
       LET this == builders[i] IN
       Make("metadata", i, value, FALSE,
            RouteHandlerBuilder([this EXCEPT !.metadataValue = value]),
            configs, arrays)

\* a use(middleware) that pushes onto the receiver's own array
UseInPlace ==
  /\ Chaining
  /\ \E i \in 1..Len(builders), middleware \in Middlewares :
       LET this == builders[i] IN
       /\ Len(Chain(this)) < MaxMiddlewares
       /\ Make("use", i, middleware, FALSE,
               RouteHandlerBuilder(this),
               configs,
               [arrays EXCEPT ![this.middlewares] = Append(@, middleware)])

\* a use(middleware) that puts the middleware in front of the chain
UsePrepending ==
  /\ Chaining
  /\ \E i \in 1..Len(builders), middleware \in Middlewares :
       LET this == builders[i] IN
       /\ Len(Chain(this)) < MaxMiddlewares
       /\ Make("use", i, middleware, FALSE,
               RouteHandlerBuilder([this EXCEPT !.middlewares = Len(arrays) + 1]),
               configs,
               Append(arrays, <<middleware>> \o Chain(this)))

\* lines 274-289: use(middleware) spreads this and gives a new array
Use ==
  /\ Chaining
  /\ \E i \in 1..Len(builders), middleware \in Middlewares :
       LET this == builders[i] IN
       /\ Len(Chain(this)) < MaxMiddlewares
       /\ Make("use", i, middleware, FALSE,
               RouteHandlerBuilder([this EXCEPT !.middlewares = Len(arrays) + 1]),
               configs,
               Append(arrays, Append(Chain(this), middleware)))

\* lines 296-306: handler(fn) returns a function that closes over this
Handler ==
  /\ pc = "build" /\ produced = 0
  /\ \E i \in 1..Len(builders) : produced' = i
  /\ UNCHANGED <<builders, configs, arrays, born, served>>
  /\ UNCHANGED invocationVars

\* the host calls the produced handler: the invocation reads this.config,
\* this.middlewares and the other fields of the builder it closed over, as
\* they are now; the other builders are out of its reach and are dropped
Serve ==
  /\ pc = "build" /\ produced # 0
  /\ LET this == builders[produced] IN
     /\ builder' = [config |-> [paramsSchema |-> Config(this).paramsSchema # Undefined,
                                querySchema |-> Config(this).querySchema # Undefined,
                                bodySchema |-> Config(this).bodySchema # Undefined,
                                metadataSchema |-> Config(this).metadataSchema # Undefined],
                    middlewares |-> Chain(this),
                    handleServerError |-> this.handleServerError,
                    handleFormData |-> this.handleFormData,
                    metadataValue |-> this.metadataValue,
                    statusMap |-> this.statusMap]
     /\ entered' = [i \in 1..(Len(Chain(this)) + 1) |-> 0]
     /\ supplied' = [i \in 1..Len(Chain(this)) |-> [n |-> 0, options |-> NoOptions]]
  /\ pc' = "idle"
  /\ served' = born[produced]
  /\ builders' = <<>> /\ configs' = <<>> /\ arrays' = <<>> /\ born' = <<>>
  /\ produced' = 0
  /\ UNCHANGED <<request, slotVars, middlewareContext, stack, origin, outcome, validated,
                 failed, translatorCalls, decoding, thrown, ended, pairVars>>

BuildNext ==
  \/ Params
  \/ Query
  \/ Body
  \/ DefineMetadata
  \/ Metadata
  \/ Use
  \/ Handler
  \/ Serve
  \/ Invoke
  \/ DecodeBody
  \/ ValidateParams
  \/ ValidateQuery
  \/ ValidateBody
  \/ ValidateMetadata
  \/ StartChain
  \/ MiddlewareNext
  \/ MiddlewareReturn
  \/ MiddlewareThrow
  \/ HandlerReturn
  \/ HandlerThrow

BuildSpec == BuildInit /\ [][BuildNext]_vars

\* =================================================================== claims
SlotRank(slot) ==
  CASE slot = "params" -> 1 [] slot = "query" -> 2 [] slot = "body" -> 3
    [] slot = "metadata" -> 4 [] OTHER -> 0
StageName(slot) ==
  CASE slot = "params" -> "Invalid params" [] slot = "query" -> "Invalid query"
    [] slot = "body" -> "Invalid body" [] slot = "metadata" -> "Invalid metadata"
\* what response.json() gives the caller
Payload(response) == response.body.text
Done == pc = "done"
Returned == outcome.settled = "fulfilled"
\* a configured validator rejected the value of its slot
ValidatorRejected ==
  failed.slot # "none" /\ validated # <<>> /\ validated[Len(validated)] = failed.slot

\* C1: the validators run in the order params, query, body, metadata, and a
\* request whose params slot and body slot both fail (the body rejected by its
\* validator, or not decodable while a body validator is configured) is
\* answered "Invalid params", never "Invalid body".
C1_ParamsReportedFirst ==
  /\ \A i, j \in 1..Len(validated) : i < j => SlotRank(validated[i]) < SlotRank(validated[j])
  /\ (/\ failed.slot # "none"
      /\ builder.config.paramsSchema /\ "params" \in request.rejects
      /\ builder.config.bodySchema
      /\ (failed.slot = "body" \/ "body" \in request.rejects))
       => (Returned /\ Payload(outcome.value).message = "Invalid params")

\* C2: when a configured validator rejects its slot the response has status
\* 400 and the payload {message: <the stage's message>, errors: <the
\* validator's issues>}, and the translator is not called.
C2_ValidationFailureIs400 ==
  ValidatorRejected =>
    /\ Returned /\ IsResponse(outcome.value)
    /\ outcome.value.status = 400
    /\ Payload(outcome.value) =
         [js |-> "failure", message |-> StageName(failed.slot), errors |-> failed.errors]
    /\ failed.errors.js = "issues" /\ failed.errors.list \in IssueLists
    /\ translatorCalls.n = 0

C2_Witness ==
  /\ Done /\ ValidatorRejected /\ failed.slot = "metadata"
  /\ builder.handleServerError /\ Len(validated) = 4

\* C3: a validation failure ends the invocation at once: no validator of a
\* later slot is run, no middleware is invoked and the user handler is not
\* invoked.
C3_FailureAbortsInvocation ==
  failed.slot # "none" =>
    /\ Done /\ stack = <<>> /\ TotalEntries = 0
    /\ \A i \in 1..Len(validated) : SlotRank(validated[i]) <= SlotRank(failed.slot)

C3_Witness ==
  /\ Done /\ failed.slot = "params" /\ N > 0
  /\ builder.config.querySchema /\ builder.config.bodySchema

\* C4: the produced handler never rejects: whatever the raw-params source,
\* the body decoder, the validators, the middleware, the user handler and the
\* translator do, the invocation returns a value.
C4_NeverRejects == outcome.settled # "rejected"

\* C5: whatever a middleware or the user handler returns, the value a
\* completed invocation hands back is a response.
C5_AlwaysAResponse == Returned => IsResponse(outcome.value)

\* the result the innermost position of the current pass produced is what the
\* continuation awaited by the running middleware resolved to, or what the
\* invocation returned
Delivered == IF stack # <<>> THEN Top.last = origin.result ELSE outcome = origin.result

SuppliedKeys(i) ==
  IF supplied[i].options.hasCtx THEN DOMAIN supplied[i].options.ctx ELSE {}
LastSupplier(k) ==
  CHOOSE i \in 1..N : k \in SuppliedKeys(i) /\ \A j \in (i + 1)..N : k \notin SuppliedKeys(j)
ExpectedCtx ==
  [k \in UNION {SuppliedKeys(i) : i \in 1..N} |-> supplied[LastSupplier(k)].options.ctx[k]]

\* C7: in a chain in which every middleware invokes its continuation once the
\* user handler receives as ctx the shallow merge, in configuration order, of
\* the increments supplied, a later one overriding an earlier one on the same
\* field and a call without increment changing nothing; {} for no middleware.
C7_HandlerSeesMergedContext ==
  (Running /\ Top.index = N /\ \A i \in 1..N : supplied[i].n = 1) => Top.ctx = ExpectedCtx

C7_Witness ==
  /\ Running /\ Top.index = N /\ N = 2
  /\ supplied[1].n = 1 /\ supplied[2].n = 1
  /\ SuppliedKeys(1) = {"a"} /\ SuppliedKeys(2) = {"a"}
  /\ Top.ctx = [k \in {"a"} |-> 1]

\* C8: the ctx a middleware at position i observes holds nothing supplied by
\* position i itself or by a later position.
C8_ContextFromEarlierPositions ==
  \A f \in 1..Len(stack) :
    stack[f].index < N =>
      \A k \in DOMAIN stack[f].ctx : stack[f].ctx[k] < stack[f].index

Default500 ==
  [type |-> "Response", status |-> 500,
   body |-> [text |-> [js |-> "message", message |-> "Internal server error"]],
   headers |-> NoHeaders]

\* C9 as claimed: when the handler or a middleware throws and no translator
\* is configured, the invocation's response is 500 {message: "Internal
\* server error"}.
C9_ThrowIsThe500Response ==
  (Done /\ origin.kind = "throw" /\ ~builder.handleServerError) =>
    outcome = Fulfilled(Default500)

\* C9 as amended: when the handler or a middleware throws and no translator
\* is configured, the response produced at that position is 500 {message:
\* "Internal server error"} whatever the failure; it is the invocation's
\* response when every middleware before it returns the result of its
\* continuation.
C9_ThrowYields500 ==
  (origin.kind = "throw" /\ ~builder.handleServerError) =>
    /\ origin.result = Fulfilled(Default500)
    /\ origin.intact => Delivered

C9_Witness ==
  /\ Done /\ N >= 1 /\ ~builder.handleServerError
  /\ origin.kind = "throw" /\ origin.pos = N /\ origin.error = JsError("E2")
  /\ origin.intact /\ outcome = Fulfilled(Default500)

\* C10 as claimed: when the handler or a middleware throws and a translator
\* is configured, the translator is called with the failure and what it
\* returns is the invocation's response.
C10_TranslatedIsTheResponse ==
  (Done /\ origin.kind = "throw" /\ builder.handleServerError
     /\ origin.result.settled = "fulfilled") =>
    /\ translatorCalls.last = origin.error
    /\ outcome = Fulfilled(TranslatedResponse(origin.error))

\* C10 as amended: when the handler or a middleware throws and a translator
\* is configured, the translator is called with the failure and what it
\* returns is the response produced at that position; it is the invocation's
\* response when every middleware before it returns the result of its
\* continuation.
C10_ThrowIsTranslated ==
  (origin.kind = "throw" /\ builder.handleServerError) =>
    /\ translatorCalls.n >= 1 /\ translatorCalls.last = origin.error
    /\ origin.result.settled = "fulfilled" =>
         origin.result = Fulfilled(TranslatedResponse(origin.error))
    /\ origin.intact => Delivered

C10_Witness ==
  /\ Done /\ N >= 1 /\ builder.handleServerError
  /\ origin.kind = "throw" /\ origin.pos = 0 /\ origin.error = JsError("E1")
  /\ outcome = Fulfilled(TranslatedResponse(JsError("E1")))

\* the slots for which the builder has a validator
Configured ==
  {slot \in {"params", "query", "body", "metadata"} :
     CASE slot = "params" -> builder.config.paramsSchema
       [] slot = "query" -> builder.config.querySchema
       [] slot = "body" -> builder.config.bodySchema
       [] slot = "metadata" -> builder.config.metadataSchema}

\* C11 as claimed: every middleware and the user handler receive, for each
\* slot that has a validator, the validator's output and never the raw input,
\* and all positions of one invocation receive the same values.
C11_OnlyValidatorOutput ==
  \A f \in 1..Len(stack) :
    /\ \A slot \in Configured : stack[f].args[slot].kind = "typed"
    /\ stack[f].args = stack[1].args

\* C11 as amended: every middleware and the user handler receive, for each
\* slot that has a validator, the validator's output and never the raw input,
\* except that metadata is undefined when the builder has a metadata validator
\* but no metadata value; all positions of one invocation receive the same
\* values.
C11_ValidatedOrAbsent ==
  \A f \in 1..Len(stack) :
    /\ \A slot \in Configured :
         IF slot = "metadata" /\ builder.metadataValue = UndefinedValue
           THEN stack[f].args.metadata = UndefinedValue
           ELSE stack[f].args[slot].kind = "typed"
    /\ stack[f].args = stack[1].args

C11_Witness ==
  /\ Len(stack) = 3 /\ Top.index = N /\ Configured = {"params", "query", "body", "metadata"}
  /\ request.method = "POST"
  /\ Top.args = [params |-> Typed("context.params"), query |-> Typed(QueryOf(UsualSearchParams)),
                 body |-> Typed("request.json"), metadata |-> Typed("metadataValue")]

\* what the handler being served reads of its builder is what the builder
\* held when it was made
ReadsAsMade ==
  /\ builder.middlewares = served.value.middlewares
  /\ builder.metadataValue = served.value.metadataValue
  /\ builder.handleServerError = served.value.handleServerError
  /\ builder.handleFormData = served.value.handleFormData
  /\ builder.statusMap = served.value.statusMap
  /\ builder.config.paramsSchema = (served.value.config.paramsSchema # Undefined)
  /\ builder.config.querySchema = (served.value.config.querySchema # Undefined)
  /\ builder.config.bodySchema = (served.value.config.bodySchema # Undefined)
  /\ builder.config.metadataSchema = (served.value.config.metadataSchema # Undefined)

\* C12: no chaining call and no handler(fn) changes its receiver: every
\* builder holds, after any calls on it or on its descendants, the validators,
\* chain, metadata value, translator, form decoder and status map it held when
\* it was made, and a produced handler reads them unchanged.
C12_ReceiverUnchanged ==
  /\ \A i \in 1..Len(builders) :
       /\ Holds(i) = born[i].value
       /\ born[i].of # 0 => Holds(born[i].of) = born[i].from
  /\ served # NotServed => ReadsAsMade

C12_Witness ==
  /\ Len(builders) = 3 /\ produced = 1
  /\ born[2].of = 1 /\ born[2].op = "use"
  /\ born[3].of = 1 /\ born[3].op = "use"
  /\ born[2].arg # born[3].arg
  /\ Holds(2).middlewares # Holds(3).middlewares

SchemaField(op) ==
  CASE op = "params" -> "paramsSchema" [] op = "query" -> "querySchema"
    [] op = "body" -> "bodySchema"

\* C13: params(v) without extend, query(v) and body(v) return a builder that
\* holds what the receiver holds except the one validator, which is v.
C13_OnlyTheValidatorChanges ==
  \A j \in 1..Len(born) :
    (born[j].op \in {"params", "query", "body"} /\ ~born[j].extend) =>
      born[j].value =
        [born[j].from EXCEPT !.config =
           [born[j].from.config EXCEPT ![SchemaField(born[j].op)] = born[j].arg]]

C13_Witness ==
  /\ Len(builders) = 3
  /\ born[2].op = "query" /\ born[2].from.middlewares = <<0>>
  /\ born[2].from.metadataValue = Raw("metadataValue")
  /\ born[2].from.statusMap["POST"] = 200
  /\ born[3].op = "params" /\ ~born[3].extend /\ born[3].of = 2
  /\ born[3].arg = ZodObject(ShapeB)
  /\ born[3].value.config.paramsSchema = ZodObject(ShapeB)
  /\ born[3].value.config.querySchema = QuerySchema

\* C14: use(m) returns a builder whose chain is the receiver's chain followed
\* by m, and an invocation enters the middleware of the chain in that order,
\* position after position, and the user handler after the last.
C14_UseAppends ==
  /\ \A j \in 1..Len(born) :
       born[j].op = "use" =>
         born[j].value.middlewares = Append(born[j].from.middlewares, born[j].arg)
  /\ served # NotServed =>
       /\ served.op = "use" =>
            builder.middlewares = Append(served.from.middlewares, served.arg)
       /\ \A f \in 1..Len(stack) :
            /\ stack[f].index = f - 1
            /\ f <= N => stack[f].fn = served.value.middlewares[f]
            /\ f > N => stack[f].fn = "handler"
       /\ \A i \in 2..(N + 1) : entered[i] > 0 => entered[i - 1] > 0

C14_Witness ==
  /\ served # NotServed /\ served.op = "use" /\ served.arg = 0
  /\ served.from.middlewares = <<1>>
  /\ Len(stack) = 3 /\ stack[1].fn = 1 /\ stack[2].fn = 0 /\ stack[3].fn = "handler"

\* C15: params(v, extend = true) on a builder that has a params validator and
\* a non-empty chain returns a builder whose chain is empty.
C15_ExtendResetsChain ==
  \A j \in 1..Len(born) :
    (/\ born[j].op = "params" /\ born[j].extend
     /\ born[j].from.config.paramsSchema # Undefined
     /\ born[j].from.middlewares # <<>>)
      => born[j].value.middlewares = <<>>

\* what a request's params may hold: for each field, nothing or a value of a type
ParamsInputs ==
  UNION {[fields -> {"string", "number"}] : fields \in SUBSET {"userId", "organizationId"}}
\* a zod object schema accepts an input that has every named field as defined
Accepts(schema, input) ==
  \A k \in DOMAIN schema.shape : k \in DOMAIN input /\ input[k] = schema.shape[k]

\* C16: params(v, extend = true) gives the validator v when the receiver has
\* none; when it has one, the result names the fields of both, a field named
\* in both defined as in v, and accepts a params value exactly when the value
\* satisfies the fields of v and the inherited fields v does not name.
C16_ExtendMergesShapes ==
  \A j \in 1..Len(born) :
    (born[j].op = "params" /\ born[j].extend) =>
      LET old == born[j].from.config.paramsSchema
          new == born[j].arg
          result == born[j].value.config.paramsSchema
      IN IF old = Undefined THEN result = new
         ELSE /\ DOMAIN result.shape = DOMAIN old.shape \cup DOMAIN new.shape
              /\ \A k \in DOMAIN new.shape : result.shape[k] = new.shape[k]
              /\ \A k \in DOMAIN old.shape \ DOMAIN new.shape : result.shape[k] = old.shape[k]
              /\ \A input \in ParamsInputs :
                   Accepts(result, input) <=>
                     /\ Accepts(new, input)
                     /\ \A k \in DOMAIN old.shape \ DOMAIN new.shape :
                          k \in DOMAIN input /\ input[k] = old.shape[k]

C16_Witness ==
  /\ Len(builders) = 3
  /\ born[3].op = "params" /\ born[3].extend
  /\ born[3].from.config.paramsSchema = ZodObject(ShapeB)
  /\ born[3].arg = ZodObject(ShapeA)
  /\ born[3].value.config.paramsSchema =
       ZodObject([userId |-> "string", organizationId |-> "string"])

\* C17: defineMetadata(v) returns a builder whose metadata validator is v,
\* whose chain is empty and whose metadata value is unset whatever the
\* receiver had, so in a handler produced from it no middleware of the
\* receiver is entered.
C17_DefineMetadataResets ==
  /\ \A j \in 1..Len(born) :
       born[j].op = "defineMetadata" =>
         /\ born[j].value.config.metadataSchema = born[j].arg
         /\ born[j].value.middlewares = <<>>
         /\ born[j].value.metadataValue = UndefinedValue
  /\ (served # NotServed /\ served.op = "defineMetadata") =>
       /\ N = 0 /\ builder.metadataValue = UndefinedValue /\ builder.config.metadataSchema
       /\ \A f \in 1..Len(stack) : stack[f].fn = "handler"

C17_Witness ==
  /\ served # NotServed /\ served.op = "defineMetadata"
  /\ served.from.middlewares = <<0, 1>>
  /\ pc = "done" /\ entered = <<1>> /\ outcome.settled = "fulfilled"

\* C18: metadata(value) returns a builder whose metadata value is value and
\* whose validators, chain, translator, form decoder and status map are the
\* receiver's.
C18_OnlyTheValueChanges ==
  \A j \in 1..Len(born) :
    born[j].op = "metadata" =>
      born[j].value = [born[j].from EXCEPT !.metadataValue = born[j].arg]

C18_Witness ==
  /\ Len(builders) = 3
  /\ born[2].op = "use" /\ born[2].from.middlewares = <<0>> /\ born[2].arg = 1
  /\ born[3].op = "metadata" /\ born[3].of = 2
  /\ born[3].from.config.paramsSchema = ZodObject(ShapeA)
  /\ born[3].value.middlewares = <<0, 1>>
  /\ born[3].value.metadataValue = Raw("metadataValue")
  /\ born[3].value.statusMap["POST"] = 200

\* the response a rejection by the metadata validator is answered with
InvalidMetadata(issues) ==
  Fulfilled(NewResponse(ValidationError("Invalid metadata", JsIssues(issues)).message,
                        400, NoHeaders))

\* C19: when a metadata validator is configured and no metadata value is
\* present, the metadata validator is not run, no "Invalid metadata" response
\* is produced, and every middleware and the handler receive metadata as
\* undefined.
C19_AbsentMetadataSkipped ==
  (builder.config.metadataSchema /\ builder.metadataValue = UndefinedValue) =>
    /\ \A i \in 1..Len(validated) : validated[i] # "metadata"
    /\ failed.slot # "metadata"
    /\ \A issues \in IssueLists : outcome # InvalidMetadata(issues)
    /\ \A f \in 1..Len(stack) : stack[f].args.metadata = UndefinedValue

C19_Witness ==
  /\ builder.config.metadataSchema /\ builder.metadataValue = UndefinedValue
  /\ N = 1 /\ Len(stack) = 2 /\ Top.fn = "handler"
  /\ stack[1].args.metadata = UndefinedValue /\ Top.args.metadata = UndefinedValue

DefaultStatus(method) ==
  CASE method = "GET" -> 200 [] method = "POST" -> 201 [] method = "PUT" -> 200
    [] method = "PATCH" -> 200 [] method = "DELETE" -> 204 [] OTHER -> 200

HandlerResponse == origin.result.value
HandlerReturned == origin.kind = "handler"

C22_ResponsePassesThrough ==
  HandlerReturned /\ IsResponse(origin.returned) =>
    /\ origin.result = Fulfilled(origin.returned)
    /\ N = 0 /\ pc = "done" => outcome = Fulfilled(origin.returned)

C22_Witness ==
  /\ pc = "done" /\ HandlerReturned /\ request.method = "DELETE"
  /\ builder.statusMap["DELETE"] = 204
  /\ origin.returned = UserResponse
  /\ outcome.value.status = 202 /\ outcome.value.body = [text |-> JsObject("user")]

\* the invocation was answered with the "Invalid body" response
InvalidBodyResponse ==
  /\ pc = "done" /\ outcome.settled = "fulfilled"
  /\ outcome.value.status = 400
  /\ outcome.value.body.text.js = "failure"
  /\ outcome.value.body.text.message = "Invalid body"

\* C23: for a GET or DELETE request the body is never read, a configured
\* body validator is not run, and no "Invalid body" response is produced
C23_BodyUntouchedForGetAndDelete ==
  SkipsBody(request.method) /\ pc # "idle" =>
    /\ decoding = NoDecoding
    /\ \A i \in 1..Len(validated) : validated[i] # "body"
    /\ ~InvalidBodyResponse

\* the body could not be decoded: request.formData(), request.json() or the
\* form-data decoder threw
DecodingFailed == decoding.threw

RECURSIVE ValuesOf(_, _)
ValuesOf(searchParams, k) ==
  IF searchParams = <<>> THEN <<>>
  ELSE (IF searchParams[1][1] = k THEN <<searchParams[1][2]>> ELSE <<>>)
       \o ValuesOf(SubSeq(searchParams, 2, Len(searchParams)), k)

\* the query validator has been handed the query slot
QueryHanded == \E i \in 1..Len(validated) : validated[i] = "query"

\* C27: the query object handed to the query validator has exactly the keys
\* that occur in the query string; a key that occurs once holds its value as
\* a string, a key that occurs more than once holds the array of all its
\* values in order of occurrence
C27_QueryScalarOrSequence ==
  QueryHanded =>
    LET given == query.of IN
    /\ DOMAIN given = {request.searchParams[i][1] : i \in 1..Len(request.searchParams)}
    /\ \A k \in DOMAIN given :
         LET values == ValuesOf(request.searchParams, k) IN
         IF Len(values) = 1
           THEN given[k] = [js |-> "string", value |-> values[1]]
           ELSE /\ given[k].js = "array"
                /\ Len(given[k].items) = Len(values)
                /\ \A j \in 1..Len(values) :
                     given[k].items[j] = [js |-> "string", value |-> values[j]]

C27_Witness ==
  /\ QueryHanded
  /\ request.searchParams = <<<<"b", "y">>, <<"a", "x">>, <<"b", "x">>>>
  /\ query.of["a"] = [js |-> "string", value |-> "x"]
  /\ query.of["b"].items = <<[js |-> "string", value |-> "y"], [js |-> "string", value |-> "x"]>>
  /\ query.kind = "typed"

\* the content type names one of the two form encodings
FormEncoded ==
  decoding.contentType \in {"application/x-www-form-urlencoded", "multipart/form-data"}

\* C28: when the body of a request other than GET or DELETE is decoded, a
\* form-encoded body (URL-encoded or multipart) is what the configured
\* form-data decoder returned, or the flattened form entries when none is
\* configured; any other content type is read as JSON, and the form-data
\* decoder is called only for a form-encoded body
C28_FormOrJson ==
  decoding # NoDecoding =>
    /\ ~SkipsBody(request.method)
    /\ decoding.read = IF FormEncoded THEN "request.formData" ELSE "request.json"
    /\ decoding.decoder => FormEncoded /\ builder.handleFormData
    /\ ~decoding.threw =>
         /\ decoding.decoder = (FormEncoded /\ builder.handleFormData)
         /\ body.of = IF ~FormEncoded THEN "request.json"
                      ELSE IF builder.handleFormData THEN "handleFormData"
                      ELSE "formData.entries"

C28_Witness ==
  /\ decoding.contentType = "application/x-www-form-urlencoded" /\ decoding.decoder
  /\ request.method = "PUT"
  /\ \E i \in 1..Len(validated) : validated[i] = "body"
  /\ body = [kind |-> "typed", of |-> "handleFormData"]

\* the raw value of the slot is one its configured validator rejects
FailsValidation(slot) ==
  slot \in request.rejects /\ request.params # "rejects" /\ pc = "done"
\* the invocation was answered 400 with the stage name of the slot
Answered400(slot) ==
  /\ outcome.settled = "fulfilled" /\ outcome.value.status = 400
  /\ outcome.value.body.text.js = "failure"
  /\ outcome.value.body.text.message =
       (CASE slot = "params" -> "Invalid params" [] slot = "query" -> "Invalid query"
          [] slot = "body" -> "Invalid body")
\* the slots checked before the slot
EarlierSlots(slot) ==
  CASE slot = "params" -> {} [] slot = "query" -> {"params"} [] slot = "body" -> {"params", "query"}

C30_PlainObjectIs200 ==
  (/\ HandlerReturned /\ origin.returned = [js |-> "object", name |-> "result"]
   /\ builder.statusMap = defaultStatusMap)
    => /\ HandlerResponse.status = 200
       /\ HandlerResponse.headers = "Content-Type: application/json"
       /\ HandlerResponse.body = [text |-> origin.returned]

\* the positions that are active are nested in configuration order: the
\* outermost is m1, each encloses the next position, and every one but the
\* innermost has run the code before its continuation and awaits it
NestedInOrder ==
  /\ \A f \in 1..Len(stack) : stack[f].index = f - 1
  /\ \A f \in 1..(Len(stack) - 1) : stack[f].calls >= 1 /\ stack[f].last = Pending
  /\ \A p \in 1..N : entered[p + 1] > 0 => entered[p] > 0 /\ supplied[p].n > 0
\* the code after a continuation runs once the next position has run and ended
AfterItsContinuation ==
  stack # <<>> /\ stack[Len(stack)].calls > 0 /\ stack[Len(stack)].last # Pending =>
    /\ entered[stack[Len(stack)].index + 2] > 0
    /\ (\A p \in (stack[Len(stack)].index + 1)..N : supplied[p].n > 0) => entered[N + 1] > 0
\* a position begins only from the code of the position before it, and the
\* position that ends is the innermost one, its result resolving the
\* continuation of the position that encloses it
NestedStep ==
  \/ /\ Len(stack') = Len(stack) + 1
     /\ stack'[Len(stack')].index = Len(stack)
     /\ \A f \in 1..(Len(stack) - 1) : stack'[f] = stack[f]
  \/ /\ Len(stack') = Len(stack) - 1
     /\ \A f \in 1..(Len(stack') - 1) : stack'[f] = stack[f]
     /\ stack' # <<>> =>
          /\ stack'[Len(stack')].last # Pending
          /\ stack'[Len(stack')].index = stack[Len(stack)].index - 1
  \/ stack' = stack

\* C26: execution is nested in configuration order: m1, ..., mN begin in that
\* order, each from the code the one before it runs before its continuation,
\* then the user handler runs, and the code after a continuation runs in
\* reverse order, each middleware resuming when the position it encloses has
\* ended
C26_NestedExecution ==
  /\ [](NestedInOrder /\ AfterItsContinuation)
  /\ [][NestedStep]_vars

C26_Witness ==
  /\ N = 2 /\ pc = "run" /\ Len(stack) = 1
  /\ stack[1].index = 0 /\ stack[1].calls = 1 /\ stack[1].last.settled = "fulfilled"
  /\ entered = <<1, 1, 1>> /\ supplied[1].n = 1 /\ supplied[2].n = 1
  /\ origin.kind = "handler"

\* every invocation under way, the running one included, with its locals
Invocations ==
  [i \in DOMAIN others \cup {invocation} |-> IF i = invocation THEN Frame ELSE others[i]]

\* the merge of the increments the invocation itself supplied to the
\* continuations of its positions 0 .. index - 1
OwnContext(call, index) ==
  LET merged[j \in 0..index] ==
        IF j = 0 THEN [k \in {} |-> 0]
        ELSE IF ~call.supplied[j].options.hasCtx THEN merged[j - 1]
        ELSE [k \in DOMAIN merged[j - 1] \cup DOMAIN call.supplied[j].options.ctx |->
                IF k \in DOMAIN call.supplied[j].options.ctx
                  THEN call.supplied[j].options.ctx[k] ELSE merged[j - 1][k]]
  IN merged[index]
SlotOf(call, slot) ==
  CASE slot = "params" -> call.params [] slot = "query" -> call.query
    [] slot = "body" -> call.body [] slot = "metadata" -> call.metadata
\* the invocation's slots come from its own request and its own validations,
\* and every middleware and the handler of the invocation were called with
\* them and with the context made of the invocation's own increments
OwnState(call) ==
  /\ call.pc # "idle" =>
       /\ call.query.of = QueryOf(call.request.searchParams)
       /\ \A slot \in {"params", "query", "body", "metadata"} :
            (SlotOf(call, slot).kind = "typed") <=>
              /\ \E i \in 1..Len(call.validated) : call.validated[i] = slot
              /\ call.failed.slot # slot
  /\ \A f \in 1..Len(call.stack) :
       /\ call.stack[f].args = [params |-> call.params, query |-> call.query,
                                body |-> call.body, metadata |-> call.metadata]
       /\ call.stack[f].ctx = OwnContext(call, call.stack[f].index)
  /\ call.stack # <<>> => call.stack[1].ctx = [k \in {} |-> 0]

\* C25: however concurrent invocations of one handler interleave, each has
\* its own params, query, body, metadata and context: its middlewares and
\* its handler are called with the slots of its own request and with the
\* merge of the increments it supplied itself, starting from the empty
\* context, and no step of an invocation changes the builder
C25_InvocationsIndependent ==
  /\ [](\A i \in DOMAIN Invocations : OwnState(Invocations[i]))
  /\ [][builder' = builder]_vars

C25_Witness ==
  /\ invocation = 2 /\ DOMAIN others = {1}
  /\ others[1].pc = "run" /\ Len(others[1].stack) = 2
  /\ others[1].stack[2].ctx = [k \in {"a"} |-> 0]
  /\ others[1].request.searchParams = <<>>
  /\ pc = "run" /\ Len(stack) = 2 /\ stack[2].ctx = [k \in {"b"} |-> 0]
  /\ request.searchParams # <<>>
  /\ stack[2].args.query.kind = "typed" /\ others[1].stack[2].args.query.kind = "typed"

HasThrown == thrown.n > 0
\* no middleware has invoked its continuation more than once
OnceEach == \A p \in 1..N : supplied[p].n <= 1
\* since the last throw no position was entered, and when the middleware
\* that threw had not invoked its continuation, no later position has ever
\* been entered
NothingAfterThrow ==
  /\ TotalEntries = thrown.entries
  /\ thrown.before /\ thrown.pos < N =>
       \A j \in (thrown.pos + 1)..N : entered[j + 1] = 0

\* C32 as claimed: a throw aborts the rest of the chain: when the middleware
\* at position i throws before invoking its continuation, no later
\* middleware and not the handler executes in the invocation, and after a
\* throw of a middleware or of the handler no position is entered again
C32_ThrowAbortsChain ==
  HasThrown => NothingAfterThrow

\* C32 as amended: the same, provided every middleware invokes its
\* continuation at most once
C32_ThrowAbortsChainOnce ==
  HasThrown /\ OnceEach => NothingAfterThrow

C32_Witness ==
  /\ pc = "done" /\ N = 2 /\ thrown.n = 1 /\ thrown.pos = 1 /\ thrown.before
  /\ entered = <<1, 1, 0>> /\ supplied[1].n = 1

\* C33: when the chain was entered, the invocation's result is what the call
\* of position 0 resolved to: the value the first middleware returned (a
\* response it built after its continuation resolved included, whatever the
\* later positions produced), or, for an empty chain, the handler's
\* normalised result
C33_ResultOfPositionZero ==
  pc = "done" /\ entered[1] > 0 =>
    /\ ended.pos = 0
    /\ outcome = ended.value
    /\ N = 0 /\ ~HasThrown =>
         /\ origin.kind = "handler"
         /\ outcome = origin.result /\ outcome.value.type = "Response"

C33_Witness ==
  /\ pc = "done" /\ N = 2 /\ ended.pos = 0
  /\ origin.kind = "throw" /\ origin.pos = 2 /\ origin.result.value.status = 500
  /\ outcome.settled = "fulfilled" /\ outcome.value.status = 401
  /\ outcome.value.body = [text |-> [js |-> "object", name |-> "middleware"], of |-> 0]

\* the continuation the running middleware awaited has settled
Resumed == pc = "run" /\ stack # <<>> /\ stack[Len(stack)].calls > 0
             /\ stack[Len(stack)].last # Pending
\* what the position that threw resolved to: the 500 response, or what the
\* translator returned for the failure
TranslatedAtThrow ==
  IF builder.handleServerError THEN Fulfilled(TranslatedResponse(origin.error))
                               ELSE Fulfilled(Default500)
\* a continuation rejects only with the failure of a translator that threw
RejectsOnlyByTranslator ==
  \A f \in 1..Len(stack) :
    stack[f].last.settled = "rejected" =>
      /\ builder.handleServerError
      /\ stack[f].last.value = [js |-> "Error", name |-> "translator"]

\* C34 as claimed: after a throw of the handler or of a middleware, the
\* continuation of every middleware at an earlier position resolves to the
\* translated error response, and the middleware goes on; unless the
\* translator throws, no continuation rejects
C34_EveryContinuationGetsTranslated ==
  /\ (origin.kind = "throw" /\ origin.result.settled = "fulfilled" /\ Resumed) =>
       stack[Len(stack)].last = TranslatedAtThrow
  /\ RejectsOnlyByTranslator

\* C34 as amended: a throw of the handler or of a middleware is translated
\* at the position where it happened; the continuation of the middleware
\* just before resolves to the translated error response, and so does that
\* of every earlier middleware as long as the middlewares in between return
\* the result of their continuation; the middleware goes on with the code
\* after its continuation; unless the translator throws, no continuation
\* rejects
C34_ThrowResolvesContinuation ==
  /\ (origin.kind = "throw" /\ origin.result.settled = "fulfilled") =>
       /\ origin.result = TranslatedAtThrow
       /\ origin.intact /\ stack # <<>> =>
            /\ Resumed
            /\ stack[Len(stack)].last = TranslatedAtThrow
  /\ RejectsOnlyByTranslator

C34_Witness ==
  /\ N = 2 /\ Resumed /\ Len(stack) = 1 /\ origin.kind = "throw" /\ origin.pos = 2
  /\ origin.intact /\ ~builder.handleServerError
  /\ stack[1].last.settled = "fulfilled" /\ stack[1].last.value.status = 500

\* the raw params of the request could not be awaited
ParamsRejected == request.params = "rejects"

\* C35: when exactly one failure is thrown by a middleware or by the handler,
\* the configured translator is called exactly once, with that failure; as
\* long as nothing is thrown (so in an invocation that ends by a validation
\* failure, by a short-circuit or by normal completion) it is not called;
\* and nothing is called when no translator is configured
C35_TranslatorCalledOncePerThrow ==
  /\ (thrown.n = 1 /\ builder.handleServerError) =>
       translatorCalls = [n |-> 1, last |-> thrown.error]
  /\ (thrown.n = 0 /\ ~ParamsRejected) => translatorCalls.n = 0
  /\ ~builder.handleServerError => translatorCalls.n = 0

C35_Witness ==
  /\ pc = "done" /\ N = 2 /\ builder.handleServerError
  /\ thrown.n = 1 /\ thrown.pos = 1 /\ thrown.error = [js |-> "Error", name |-> "E2"]
  /\ translatorCalls.n = 1 /\ validated = <<"params", "query", "body", "metadata">>

\* an invocation with a translator that ended by a validation failure
C35_WitnessValidation ==
  /\ pc = "done" /\ builder.handleServerError /\ failed.slot = "query"
  /\ translatorCalls.n = 0

\* the context with the fields of the increment laid over it
WithIncrement(ctx, options) ==
  IF ~options.hasCtx THEN ctx
  ELSE [k \in DOMAIN ctx \cup DOMAIN options.ctx |->
          IF k \in DOMAIN options.ctx THEN options.ctx[k] ELSE ctx[k]]

\* C36: every position entered by a continuation call observes the context
\* its caller was entered with plus the increment supplied with that call,
\* also when the caller invokes its continuation a second time: nothing a
\* later middleware supplied during an earlier pass is visible
C36_PassStartsFromCallersContext ==
  \A f \in 2..Len(stack) :
    stack[f].ctx = WithIncrement(stack[f - 1].ctx, supplied[stack[f - 1].index + 1].options)

\* the invocation has completed: its promise has settled, by a validation
\* failure, by a failure of the raw params, or by what position 0 resolved to
Completed ==
  /\ pc = "done" /\ outcome # Pending /\ stack = <<>>
  /\ \/ failed # NoFailure
     \/ ParamsRejected
     \/ entered[1] = 1 /\ outcome = ended.value

\* C37: when every call the invocation makes returns or throws and every
\* middleware invokes its continuation at most once, the invocation
\* eventually completes, no middleware and not the handler having been
\* entered more than once
C37_InvocationTerminates ==
  ([]OnceEach) => <>(Completed /\ \A q \in 1..(N + 1) : entered[q] <= 1)

C37_Witness ==
  /\ Completed /\ OnceEach /\ N = 2 /\ entered = <<1, 1, 1>>
  /\ HandlerReturned /\ ended.pos = 0 /\ failed = NoFailure

\* the status a method has when the given map is laid over the default one
OverriddenStatus(given, method) ==
  IF method \in DOMAIN given THEN given[method] ELSE DefaultStatus(method)

\* what a builder holds is what the constructor of the first builder was given:
\* the translator, the form-data decoder, and the default status map with the
\* entries of the given map in place of its own
AsConstructed(held, given) ==
  /\ held.handleServerError = given.handleServerError
  /\ held.handleFormData = given.handleFormData
  /\ DOMAIN held.statusMap = DOMAIN defaultStatusMap \cup DOMAIN given.statusMap
  /\ \A m \in DOMAIN held.statusMap :
       held.statusMap[m] = OverriddenStatus(given.statusMap, m)

\* C38: a status map given at construction overrides the default map entry by
\* entry, the methods it does not list keeping their default status; the
\* translator, the form-data decoder and the status map given at construction
\* are held unchanged by every builder made by any chaining method
\* (defineMetadata and extend-mode params included), and the handler produced
\* from any of them uses them: the status of a value it returns is the
\* overridden entry of the request's method, the form-data decoder runs only
\* if one was given, and the translator is called only if one was given.
C38_ConstructionOptionsCarried ==
  /\ \A j \in 1..Len(born) :
       /\ AsConstructed(born[j].value, born[j].given)
       /\ AsConstructed(Holds(j), born[j].given)
  /\ served # NotServed =>
       /\ AsConstructed(builder, served.given)
       /\ (HandlerReturned /\ HandlerResponse # UserResponse) =>
            HandlerResponse.status = OverriddenStatus(served.given.statusMap, request.method)
       /\ decoding.decoder => served.given.handleFormData
       /\ translatorCalls.n > 0 => served.given.handleServerError

C38_Witness ==
  /\ served # NotServed /\ served.op = "defineMetadata"
  /\ served.given.statusMap = CustomStatusMap /\ served.given.handleServerError
  /\ served.from.config.paramsSchema = ZodObject(ShapeB)
  /\ request.method = "POST" /\ pc = "done"
  /\ HandlerReturned /\ outcome.value.status = 200

C38_WitnessExtend ==
  /\ Len(born) = 3 /\ born[1].given.statusMap = CustomStatusMap
  /\ born[2].op = "params" /\ born[2].extend /\ born[2].of = 1
  /\ born[3].op = "defineMetadata" /\ born[3].of = 2
  /\ born[3].value.statusMap["POST"] = 200 /\ born[3].value.statusMap["DELETE"] = 204

C38_WitnessDecoder ==
  /\ served # NotServed /\ served.op \in {"params", "body"}
  /\ served.given.handleFormData /\ decoding.decoder
  /\ translatorCalls.n > 0 /\ pc = "done"

\* the configured form-data decoder was called and threw
DecoderThrew == decoding.decoder /\ decoding.threw

\* C39: a failure thrown by the configured form-data decoder is a
\* body-decoding failure and not a runtime failure: with a body validator
\* the response is 400 "Invalid body", the chain is not entered and the
\* translator is not called; with none the failure is absorbed, the body stays
\* the empty object and the chain runs unless another validator rejects; the
\* translator is then called only with what the chain threw, and without a
\* throw in the chain the response is not a 500
C39_DecoderFailureIsDecodingFailure ==
  DecoderThrew =>
    /\ FormEncoded /\ builder.handleFormData
    /\ builder.config.bodySchema =>
         /\ InvalidBodyResponse
         /\ failed = [slot |-> "body", errors |-> DecodeError]
         /\ translatorCalls.n = 0 /\ thrown.n = 0
         /\ TotalEntries = 0
    /\ ~builder.config.bodySchema =>
         /\ body = EmptyObject
         /\ failed.slot # "body"
         /\ (pc = "done" /\ failed = NoFailure) => TotalEntries > 0
         /\ translatorCalls.n > 0 => (thrown.n > 0 /\ translatorCalls.last = thrown.error)
         /\ (pc = "done" /\ thrown.n = 0) => (Returned /\ outcome.value.status # 500)

C39_Witness ==
  /\ DecoderThrew /\ builder.config.bodySchema
  /\ builder.handleServerError /\ builder.handleFormData
  /\ decoding.contentType = "multipart/form-data"
  /\ request.method = "POST" /\ InvalidBodyResponse /\ translatorCalls.n = 0

\* the decoder threw, no body validator is configured, and the handler ran
C39_WitnessAbsorbed ==
  /\ DecoderThrew /\ ~builder.config.bodySchema /\ builder.handleServerError
  /\ pc = "done" /\ HandlerReturned /\ body = EmptyObject
  /\ translatorCalls.n = 0 /\ outcome.value.status = 201

====
